---------------------------- MODULE Spec2Model ----------------------------
(***************************************************************************)
(* Model of the param-table codec of soulstruct (src/soulstruct/params/    *)
(* core.py): the bit cursor (BitField), the record codec (ParamEntry) and  *)
(* the table codec (ParamTable).                                           *)
(*                                                                         *)
(* Bytes are integers 0..255, byte strings are sequences of bytes, and the *)
(* Python bit strings of BitField ("0"/"1" characters) are sequences of    *)
(* 0/1.  A Python value is a record [kind, v]: kind is the Python type     *)
(* ("int", "bytes", "str"), v the value.                                   *)
(***************************************************************************)
EXTENDS Integers, Sequences, FiniteSets, TLC

(***************************************************************************)
(* Bounds of the model.                                                    *)
(***************************************************************************)
\* Most sub-byte fields one bit-cursor scenario packs.
MaxBitFields == 3

\* Most fields of an enumerated schema.
MaxSchemaLen == 2

\* Most field assignments made on one record.
MaxEdits == 1

\* Most entry pointers of an enumerated table.
MaxEntries == 3

\* Most insertions, removals and field edits made on one table.
MaxTableEdits == 1

(***************************************************************************)
(* Python helpers: slices, reversal, int(s, 2), bin(), format(b, "08b").   *)
(***************************************************************************)
None == [kind |-> "None"]

Min2(a, b) == IF a <= b THEN a ELSE b

RECURSIVE Pow2(_)
Pow2(n) == IF n <= 0 THEN 1 ELSE 2 * Pow2(n - 1)

\* s[::-1]
Reverse(s) == [i \in 1..Len(s) |-> s[Len(s) + 1 - i]]

\* s[a:b] for 0 <= a, 0 <= b (Python clips both ends to len(s)).
Slice(s, a, b) ==
    LET lo == Min2(a, Len(s))
        hi == Min2(b, Len(s))
    IN  IF hi <= lo THEN <<>> ELSE [i \in 1..(hi - lo) |-> s[lo + i]]

\* b"\x00" * n (no byte when n <= 0)
Zeros(n) == [i \in 1..n |-> 0]

\* The value of a string of binary digits, most significant first.
RECURSIVE DigitsToInt(_)
DigitsToInt(s) ==
    IF Len(s) = 0 THEN 0
    ELSE 2 * DigitsToInt(SubSeq(s, 1, Len(s) - 1)) + (IF s[Len(s)] = "1" THEN 1 ELSE 0)

\* int(s, 2) of a string of the characters "0", "1" and "b": the value of
\* its binary digits, which may follow the prefix "0b"; -1 for the
\* ValueError of a string that has no digit or has a "b" elsewhere.
BitsToInt(s) ==
    LET digits == IF Len(s) >= 2 /\ s[1] = "0" /\ s[2] = "b"
                  THEN SubSeq(s, 3, Len(s))
                  ELSE s
    IN  IF digits = <<>> \/ \E i \in 1..Len(digits) : digits[i] = "b"
        THEN -1
        ELSE DigitsToInt(digits)

\* bin(value)[2:]: the binary digits of value, no leading zeroes, "0" for
\* 0; for a negative value bin() starts with "-0b", so the letter stays
\* before the digits of -value.
RECURSIVE Bin(_)
Bin(value) ==
    IF value < 0 THEN <<"b">> \o Bin(0 - value)
    ELSE IF value < 2 THEN <<IF value = 1 THEN "1" ELSE "0">>
    ELSE Append(Bin(value \div 2), IF value % 2 = 1 THEN "1" ELSE "0")

\* format(byte, "08b")
Format08b(byte) ==
    [i \in 1..8 |-> IF (byte \div Pow2(8 - i)) % 2 = 1 THEN "1" ELSE "0"]

(***************************************************************************)
(* BitField: the bit cursor.  A cursor is [field, offset], field being the *)
(* string of the pending bits as a sequence of its characters; an          *)
(* operation returns the cursor after the call with what the call          *)
(* returned: a byte, a value, None, or the exception it raised in err ("" *)
(* when none).                                                             *)
(***************************************************************************)
NewBitField == [field |-> <<>>, offset |-> 0]

\* A mutation of BitsValue: the extracted bits are not reversed back.
BitsValueUnreversed(bits) == BitsToInt(bits)

\* int(bits[::-1], 2): the value of the bits BitField.unpack extracted.
BitsValue(bits) == BitsToInt(Reverse(bits))

\* A mutation of CarriedOffset: the next byte is read from its first bit.
CarriedOffsetDropped(offset) == 0

\* The offset BitField.unpack keeps when it has reached 8 or gone beyond and
\* the buffer is cleared: self.__offset % 8
CarriedOffset(offset) == offset % 8

\* BitField.unpack(buffer, bit_count); buffer is the byte string, pos the
\* number of bytes already read from it.
BitFieldUnpack(bf, buffer, pos, bit_count) ==
    IF bf.field = <<>> /\ pos >= Len(buffer)
    THEN \* buffer.read(1) gives b"" and struct.unpack raises
         [bf |-> bf, pos |-> pos, value |-> 0, err |-> "struct.error"]
    ELSE LET fresh == bf.field = <<>>
             field == IF fresh THEN Reverse(Format08b(buffer[pos + 1])) ELSE bf.field
             pos2  == IF fresh THEN pos + 1 ELSE pos
             bits  == Slice(field, bf.offset, bf.offset + bit_count)
             off2  == bf.offset + bit_count
         IN  IF BitsValue(bits) < 0
             THEN \* int() raises after the byte was consumed: no bit is
                  \* left at the offset, or the bits hold a letter
                  [bf |-> [field |-> field, offset |-> bf.offset], pos |-> pos2,
                   value |-> 0, err |-> "ValueError"]
             ELSE [bf |-> IF off2 >= 8
                          THEN [field |-> <<>>, offset |-> CarriedOffset(off2)]
                          ELSE [field |-> field, offset |-> off2],
                   pos |-> pos2,
                   value |-> BitsValue(bits),
                   err |-> ""]

\* The test of BitField.pack that rejects a value: len(bin(value)[2:]) > bit_count.
TooWide(value, bit_count) == Len(Bin(value)) > bit_count

\* BitField.pack(value, bit_count) for an integer value; byte is None when
\* no byte was completed.  int() raises on a completed byte that holds the
\* letter of a negative value elsewhere than in a prefix "0b", after the
\* byte was taken off the pending bits.
BitFieldPack(bf, value, bit_count) ==
    IF TooWide(value, bit_count)
    THEN [bf |-> bf, byte |-> None, err |-> "ValueError"]
    ELSE LET binary_value == [i \in 1..(bit_count - Len(Bin(value))) |-> "0"] \o Bin(value)
             field == bf.field \o Reverse(binary_value)
             left == [field |-> IF Len(field) > 8 THEN Slice(field, 8, Len(field)) ELSE <<>>,
                      offset |-> bf.offset]
         IN  IF Len(field) < 8
             THEN [bf |-> [field |-> field, offset |-> bf.offset],
                   byte |-> None, err |-> ""]
             ELSE IF BitsToInt(Reverse(Slice(field, 0, 8))) < 0
             THEN [bf |-> left, byte |-> None, err |-> "ValueError"]
             ELSE [bf |-> left,
                   byte |-> [kind |-> "int", v |-> BitsToInt(Reverse(Slice(field, 0, 8)))],
                   err |-> ""]

\* BitField.pad().  int() raises on pending bits that hold the letter of a
\* negative value, after the zeroes were added and before the bits are
\* dropped.
BitFieldPad(bf) ==
    IF bf.field # <<>>
    THEN LET field == bf.field \o [i \in 1..(8 - Len(bf.field)) |-> "0"]
         IN  IF BitsToInt(Reverse(field)) < 0
             THEN [bf |-> [field |-> field, offset |-> bf.offset],
                   byte |-> None, err |-> "ValueError"]
             ELSE [bf |-> [field |-> <<>>, offset |-> bf.offset],
                   byte |-> [kind |-> "int", v |-> BitsToInt(Reverse(field))],
                   err |-> ""]
    ELSE [bf |-> bf, byte |-> None, err |-> ""]

\* BitField.clear()
BitFieldClear(bf) == [field |-> <<>>, offset |-> 0]

\* packed += struct.pack("<B", completed_byte) when a byte was completed.
AddByte(packed, byte) == IF byte = None THEN packed ELSE Append(packed, byte.v)

(***************************************************************************)
(* The value-type registry (soulstruct.params.enums) and struct, for four  *)
(* integer types and the 32-bit float.  The formats are little-endian.     *)
(***************************************************************************)
IntV(n) == [kind |-> "int", v |-> n]

BytesV(s) == [kind |-> "bytes", v |-> s]

\* A float is [kind |-> "float", v |-> the four bytes of its IEEE 754
\* binary32 encoding, least significant first]: the floats of the model
\* are the values a binary32 holds.  This one is 1.0.
FloatOne == [kind |-> "float", v |-> <<0, 0, 128, 63>>]


\* getattr(enums, tag) succeeds.
IsKnownType(tag) == tag \in {"u8", "s8", "u16", "s16", "f32"}

TypeSize(tag) == IF tag \in {"u8", "s8"} THEN 1 ELSE IF tag = "f32" THEN 4 ELSE 2

TypeSigned(tag) == tag \in {"s8", "s16"}

TypeMinimum(tag) == IF TypeSigned(tag) THEN 0 - Pow2(8 * TypeSize(tag) - 1) ELSE 0

TypeMaximum(tag) ==
    IF TypeSigned(tag) THEN Pow2(8 * TypeSize(tag) - 1) - 1 ELSE Pow2(8 * TypeSize(tag)) - 1

TypePythonType(tag) == IF tag = "f32" THEN "float" ELSE "int"

\* The range of f32, every finite value: the exponent bits of data are
\* not all set, as they are for an infinity and for a NaN.
FloatIsFinite(data) == 2 * (data[4] % 128) + data[3] \div 128 # 255

\* The float struct.unpack("<f", data) gives: the value data encodes, a
\* signalling NaN made quiet by the widening to a double.
FloatUnpack(data) ==
    LET nan == ~FloatIsFinite(data) /\ (data[3] % 128 # 0 \/ data[2] # 0 \/ data[1] # 0)
    IN  IF nan /\ (data[3] \div 64) % 2 = 0
        THEN [data EXCEPT ![3] = data[3] + 64]
        ELSE data

\* The unsigned little-endian number a byte string spells.
RECURSIVE LittleEndian(_)
LittleEndian(data) ==
    IF Len(data) = 0 THEN 0 ELSE data[1] + 256 * LittleEndian(Tail(data))

\* value as n little-endian bytes (two's complement when value < 0): floored
\* division gives the bytes of value % 2^(8n) without forming 2^(8n).
ToBytes(value, n) == [i \in 1..n |-> (value \div Pow2(8 * (i - 1))) % 256]

\* struct.unpack(field_type.format(), data) when len(data) is the type's
\* size: the v of the value.
StructUnpack(tag, data) ==
    IF tag = "f32" THEN FloatUnpack(data)
    ELSE LET u == LittleEndian(data)
         IN  IF TypeSigned(tag) /\ u >= Pow2(8 * TypeSize(tag) - 1)
             THEN u - Pow2(8 * TypeSize(tag))
             ELSE u

\* struct.pack(field_type.format(), value) for a value in the type's range.
StructPack(tag, value) == IF tag = "f32" THEN value ELSE ToBytes(value, TypeSize(tag))

\* io.BytesIO.read(n) at position pos, the reader ParamTable.__init__ makes
\* of a bytes source: to the end of the buffer when n < 0 or when fewer
\* than n bytes are left.
Read(buffer, pos, n) ==
    IF n < 0 THEN Slice(buffer, pos, Len(buffer)) ELSE Slice(buffer, pos, pos + n)

(***************************************************************************)
(* ParamDef: the schema of one table, [param_name, fields]; a field is     *)
(* [name, debug_name, internal_type, bit_size, size].                      *)
(***************************************************************************)
\* paramdef[field_name]
ParamDefField(paramdef, field_name) ==
    LET i == CHOOSE i \in 1..Len(paramdef.fields) : paramdef.fields[i].name = field_name
    IN  paramdef.fields[i]

(***************************************************************************)
(* OrderedDict as a sequence of [name, value] items.                       *)
(***************************************************************************)
HasKey(items, key) == \E i \in 1..Len(items) : items[i].name = key

\* items[key] = value: in place for a key already there, else at the end.
DictSet(items, key, value) ==
    IF HasKey(items, key)
    THEN [i \in 1..Len(items) |->
            IF items[i].name = key THEN [name |-> key, value |-> value] ELSE items[i]]
    ELSE Append(items, [name |-> key, value |-> value])

DictGet(items, key) ==
    LET i == CHOOSE i \in 1..Len(items) : items[i].name = key IN items[i].value

Keys(items) == [i \in 1..Len(items) |-> items[i].name]

\* A mutation of PadIsNull: only the first byte of the pad is looked at.
PadIsNullFirstByte(field_value, size) ==
    Len(field_value) = size /\ (size = 0 \/ field_value[1] = 0)

\* The null test of ParamEntry.unpack on the bytes read for a dummy8 field:
\* field_value == b"\0" * field.size
PadIsNull(field_value, size) == field_value = Zeros(size)

(***************************************************************************)
(* ParamEntry: [name, fields, paramdef, bit_field].                        *)
(***************************************************************************)
\* A mutation of StoreField: the value of a dummy8 field is dropped.
StoreFieldUnlessPad(fields, field, field_value) ==
    IF field.internal_type = "dummy8" THEN fields
    ELSE DictSet(fields, field.name, field_value)

\* The last statement of the loop of ParamEntry.unpack, reached by every kind
\* of field: self.fields[field.name] = field_value
StoreField(fields, field, field_value) == DictSet(fields, field.name, field_value)

\* The result of a failed lookup of a field's type.
NoType == ""

\* field_type of ParamEntry.unpack and ParamEntry.pack: getattr(enums,
\* field.internal_type), enums.f32 for the field named sfxMultiplier when
\* the lookup fails, NoType when it fails for another field.
FieldType(field) ==
    IF IsKnownType(field.internal_type) THEN field.internal_type
    ELSE IF field.name = "sfxMultiplier" THEN "f32"
    ELSE NoType

\* The decoding of one field in ParamEntry.unpack.  st is [fields, bit_field,
\* pos, err, at]: the mapping so far, the cursor, the bytes read, and the
\* exception with the field that raised it.
UnpackField(st, field, entry_buffer) ==
    IF field.bit_size < 8
    THEN LET r == BitFieldUnpack(st.bit_field, entry_buffer, st.pos, field.bit_size)
         IN  IF r.err # ""
             THEN [st EXCEPT !.bit_field = r.bf, !.pos = r.pos, !.err = r.err,
                             !.at = field.name]
             ELSE [st EXCEPT !.bit_field = r.bf, !.pos = r.pos,
                             !.fields = StoreField(st.fields, field, IntV(r.value))]
    ELSE IF field.internal_type = "dummy8"
    THEN LET field_value == Read(entry_buffer, st.pos, field.size)
             cleared == [st EXCEPT !.bit_field = BitFieldClear(st.bit_field),
                                   !.pos = st.pos + Len(field_value)]
         IN  IF ~PadIsNull(field_value, field.size)
             THEN [cleared EXCEPT !.err = "ValueError", !.at = field.name]
             ELSE [cleared EXCEPT
                      !.fields = StoreField(st.fields, field, BytesV(field_value))]
    ELSE LET cleared == [st EXCEPT !.bit_field = BitFieldClear(st.bit_field)]
             field_type == FieldType(field)
         IN  IF field_type = NoType
             THEN [cleared EXCEPT !.err = "KeyError", !.at = field.name]
             ELSE LET data == Read(entry_buffer, st.pos, TypeSize(field_type))
                      read == [cleared EXCEPT !.pos = st.pos + Len(data)]
                  IN  IF Len(data) # TypeSize(field_type)
                      THEN \* struct.error
                           IF field.debug_name \in {"inverseToneMapMul", "sfxMultiplier"}
                           THEN [read EXCEPT !.fields =
                                   StoreField(st.fields, field, FloatOne)]
                           ELSE \* raised again as ValueError
                                [read EXCEPT !.err = "ValueError", !.at = field.name]
                      ELSE [read EXCEPT !.fields =
                              StoreField(st.fields, field,
                                  [kind |-> TypePythonType(field_type),
                                   v |-> StructUnpack(field_type, data)])]

RECURSIVE UnpackFields(_, _, _, _)
UnpackFields(st, fields, i, entry_buffer) ==
    IF i > Len(fields) \/ st.err # "" THEN st
    ELSE UnpackFields(UnpackField(st, fields[i], entry_buffer), fields, i + 1, entry_buffer)

\* ParamEntry.unpack(entry_buffer, name) on entry: [entry, err, at].
EntryUnpack(entry, entry_buffer, name) ==
    LET st == UnpackFields([fields |-> entry.fields, bit_field |-> entry.bit_field,
                            pos |-> 0, err |-> "", at |-> ""],
                           entry.paramdef.fields, 1, entry_buffer)
    IN  [entry |-> [entry EXCEPT !.fields = st.fields, !.bit_field = st.bit_field,
                                 !.name = IF st.err = "" THEN name ELSE entry.name],
         err |-> st.err, at |-> st.at]

\* ParamEntry(entry_source, paramdef, name) from raw entry data.
NewEntryFromBytes(entry_source, paramdef, name) ==
    EntryUnpack([name |-> name, fields |-> <<>>, paramdef |-> paramdef,
                 bit_field |-> NewBitField],
                entry_source, name)

\* ParamEntry(entry_source, paramdef, name) from a mapping: entry_source is
\* [kind |-> "OrderedDict" or "dict", v |-> items], name is None or a str.
\* No item of the mapping is copied into self.fields.  With a str name and
\* no "name" item the warning formats entry_source['name'] and raises
\* KeyError.
NewEntryFromMapping(entry_source, paramdef, name) ==
    LET entry == [name |-> None, fields |-> <<>>, paramdef |-> paramdef,
                  bit_field |-> NewBitField]
    IN  IF entry_source.kind = "OrderedDict"
        THEN IF name.kind = "None"
             THEN IF ~HasKey(entry_source.v, "name")
                  THEN [entry |-> entry, err |-> "ValueError"]
                  ELSE [entry |-> [entry EXCEPT !.name = DictGet(entry_source.v, "name")],
                        err |-> ""]
             ELSE IF name.kind = "str"
             THEN IF ~HasKey(entry_source.v, "name")
                  THEN [entry |-> entry, err |-> "KeyError"]
                  ELSE [entry |-> [entry EXCEPT !.name = name], err |-> ""]
             ELSE [entry |-> entry, err |-> "ValueError"]
        ELSE \* a dict that is no OrderedDict
             [entry |-> entry, err |-> "TypeError"]

\* A mutation of InRange: the maximum itself is rejected.
InRangeBelowMaximum(tag, value) ==
    IF tag = "f32" THEN FloatIsFinite(value)
    ELSE TypeMinimum(tag) <= value /\ value < TypeMaximum(tag)

\* The range test of ParamEntry.pack: field_type.minimum() <= value <= field_type.maximum().
InRange(tag, value) ==
    IF tag = "f32" THEN FloatIsFinite(value)
    ELSE TypeMinimum(tag) <= value /\ value <= TypeMaximum(tag)

\* The encoding of one item of entry.fields in ParamEntry.pack.  st is
\* [packed_entry, bit_field, err, at].
PackField(st, paramdef, field_name, field_value) ==
    LET field == ParamDefField(paramdef, field_name)
        field_type == FieldType(field)
    IN  IF field.bit_size < 8
        THEN IF field_value.kind # "int"
             THEN \* bin() of a value that is no integer
                  [st EXCEPT !.err = "TypeError", !.at = field_name]
             ELSE LET r == BitFieldPack(st.bit_field, field_value.v, field.bit_size)
                  IN  IF r.err # ""
                      THEN [st EXCEPT !.bit_field = r.bf, !.err = r.err, !.at = field_name]
                      ELSE [st EXCEPT !.bit_field = r.bf,
                                      !.packed_entry = AddByte(st.packed_entry, r.byte)]
        ELSE LET p == BitFieldPad(st.bit_field)
                 padded == [st EXCEPT !.bit_field = p.bf,
                                      !.packed_entry = AddByte(st.packed_entry, p.byte)]
             IN  IF p.err # ""
                 THEN [padded EXCEPT !.err = p.err, !.at = field_name]
                 ELSE IF field.internal_type = "dummy8"
                 THEN [padded EXCEPT !.packed_entry = padded.packed_entry \o Zeros(field.size)]
                 ELSE IF field_type = NoType
                 THEN [padded EXCEPT !.err = "ParamError", !.at = field_name]
                 ELSE IF field_value.kind # TypePythonType(field_type)
                 THEN [padded EXCEPT !.err = "ParamError", !.at = field_name]
                 ELSE IF ~InRange(field_type, field_value.v)
                 THEN [padded EXCEPT !.err = "ParamError", !.at = field_name]
                 ELSE [padded EXCEPT !.packed_entry =
                         padded.packed_entry \o StructPack(field_type, field_value.v)]

RECURSIVE PackFields(_, _, _, _)
PackFields(st, paramdef, items, i) ==
    IF i > Len(items) \/ st.err # "" THEN st
    ELSE PackFields(PackField(st, paramdef, items[i].name, items[i].value),
                    paramdef, items, i + 1)

\* ParamEntry.pack() on entry: [entry, packed_entry, err, at]; the cursor of
\* the entry is the one its earlier calls left.
EntryPack(entry) ==
    LET st == PackFields([packed_entry |-> <<>>, bit_field |-> entry.bit_field,
                          err |-> "", at |-> ""],
                         entry.paramdef, entry.fields, 1)
    IN  [entry |-> [entry EXCEPT !.bit_field = st.bit_field],
         packed_entry |-> IF st.err = "" THEN st.packed_entry ELSE <<>>,
         err |-> st.err, at |-> st.at]

\* A mutation of EntrySetItem: a name that is no field is added to the mapping.
EntrySetItemAddsKey(entry, field, value) ==
    LET n == Len(entry.fields)
        byIndex == field.kind = "int"
        idx == IF byIndex THEN (IF field.v < 0 THEN field.v + n ELSE field.v) ELSE 0
    IN  IF byIndex /\ (idx < 0 \/ idx >= n)
        THEN [entry |-> entry, err |-> "KeyError"]
        ELSE LET key == IF byIndex THEN entry.fields[idx + 1].name ELSE field.v
             IN  [entry |-> [entry EXCEPT !.fields = DictSet(entry.fields, key, value)],
                  err |-> ""]

\* ParamEntry.__setitem__(field, value); field is a name (kind "str") or a
\* position (kind "int", counted from 0, a negative one from the end).
EntrySetItem(entry, field, value) ==
    LET n == Len(entry.fields)
        byIndex == field.kind = "int"
        idx == IF byIndex THEN (IF field.v < 0 THEN field.v + n ELSE field.v) ELSE 0
    IN  IF byIndex /\ (idx < 0 \/ idx >= n)
        THEN [entry |-> entry, err |-> "KeyError"]
        ELSE LET key == IF byIndex THEN entry.fields[idx + 1].name ELSE field.v
             IN  IF ~HasKey(entry.fields, key)
                 THEN [entry |-> entry, err |-> "KeyError"]
                 ELSE [entry |-> [entry EXCEPT !.fields = DictSet(entry.fields, key, value)],
                       err |-> ""]

(***************************************************************************)
(* Text: a str is [kind |-> "str", v |-> code points], bytes are [kind |-> *)
(* "bytes", v |-> bytes].  shift_jis_2004 as python's codec has it: single *)
(* bytes by JIS X 0201 (ASCII but for two characters, and the half-width   *)
(* katakana), two bytes by the table of JIS X 0213 below.                  *)
(***************************************************************************)
StrV(codes) == [kind |-> "str", v |-> codes]

\* JUNK_ENTRY_NAMES
JUNK_ENTRY_NAMES == { <<128, 30>>, <<254, 30>> }

\* The characters of the table that are a base character with a
\* modifier, two code points for one cell: <<base, modifier, lead byte,
\* trail byte>>.
JISX0213_PAIRS ==
    << <<12363, 12442, 130, 245>>,
       <<12365, 12442, 130, 246>>,
       <<12367, 12442, 130, 247>>,
       <<12369, 12442, 130, 248>>,
       <<12371, 12442, 130, 249>>,
       <<12459, 12442, 131, 151>>,
       <<12461, 12442, 131, 152>>,
       <<12463, 12442, 131, 153>>,
       <<12465, 12442, 131, 154>>,
       <<12467, 12442, 131, 155>>,
       <<12475, 12442, 131, 156>>,
       <<12484, 12442, 131, 157>>,
       <<12488, 12442, 131, 158>>,
       <<12791, 12442, 131, 246>>,
       <<230, 768, 134, 99>>,
       <<596, 768, 134, 103>>,
       <<596, 769, 134, 104>>,
       <<652, 768, 134, 105>>,
       <<652, 769, 134, 106>>,
       <<601, 768, 134, 107>>,
       <<601, 769, 134, 108>>,
       <<602, 768, 134, 109>>,
       <<602, 769, 134, 110>>,
       <<745, 741, 134, 133>>,
       <<741, 745, 134, 134>> >>

\* The two-byte table: a row for each lead byte 129..159 and 224..252, in
\* it a cell for each trail byte 64..126 and 128..252.  A cell holds the
\* code point of its character, 0 when it has none, and -k for the k-th
\* entry of JISX0213_PAIRS.
JISX0213_DECODE ==
    << << 12288, 12289, 12290, 65292, 65294, 12539, 65306, 65307, 65311, 65281, 12443, 12444, 180, 65344, 168, 65342, 65507, 65343, 12541, 12542,
          12445, 12446, 12291, 20189, 12293, 12294, 12295, 12540, 8213, 8208, 65295, 92, 12316, 8214, 65372, 8230, 8229, 8216, 8217, 8220,
          8221, 65288, 65289, 12308, 12309, 65339, 65341, 65371, 65373, 12296, 12297, 12298, 12299, 12300, 12301, 12302, 12303, 12304, 12305, 65291,
          8722, 177, 215, 247, 65309, 8800, 65308, 65310, 8806, 8807, 8734, 8756, 9794, 9792, 176, 8242, 8243, 8451, 65509, 65284,
          162, 163, 65285, 65283, 65286, 65290, 65312, 167, 9734, 9733, 9675, 9679, 9678, 9671, 9670, 9633, 9632, 9651, 9650, 9661,
          9660, 8251, 12306, 8594, 8592, 8593, 8595, 12307, 65287, 65282, 65293, 126, 12339, 12340, 12341, 12347, 12348, 12543, 12447, 8712,
          8715, 8838, 8839, 8834, 8835, 8746, 8745, 8836, 8837, 8842, 8843, 8713, 8709, 8965, 8966, 8743, 8744, 172, 8658, 8660,
          8704, 8707, 8853, 8854, 8855, 8741, 8742, 10629, 10630, 12312, 12313, 12310, 12311, 8736, 8869, 8978, 8706, 8711, 8801, 8786,
          8810, 8811, 8730, 8765, 8733, 8757, 8747, 8748, 8802, 8771, 8773, 8776, 8822, 8823, 8596, 8491, 8240, 9839, 9837, 9834,
          8224, 8225, 182, 9838, 9835, 9836, 9833, 9711 >>,
       << 9655, 9654, 9665, 9664, 8599, 8600, 8598, 8601, 8644, 8680, 8678, 8679, 8681, 10548, 10549, 65296, 65297, 65298, 65299, 65300,
          65301, 65302, 65303, 65304, 65305, 10687, 9673, 12349, 65094, 65093, 9702, 8226, 65313, 65314, 65315, 65316, 65317, 65318, 65319, 65320,
          65321, 65322, 65323, 65324, 65325, 65326, 65327, 65328, 65329, 65330, 65331, 65332, 65333, 65334, 65335, 65336, 65337, 65338, 8723, 8501,
          8463, 13259, 8467, 8487, 65345, 65346, 65347, 65348, 65349, 65350, 65351, 65352, 65353, 65354, 65355, 65356, 65357, 65358, 65359, 65360,
          65361, 65362, 65363, 65364, 65365, 65366, 65367, 65368, 65369, 65370, 12448, 8211, 10746, 10747, 12353, 12354, 12355, 12356, 12357, 12358,
          12359, 12360, 12361, 12362, 12363, 12364, 12365, 12366, 12367, 12368, 12369, 12370, 12371, 12372, 12373, 12374, 12375, 12376, 12377, 12378,
          12379, 12380, 12381, 12382, 12383, 12384, 12385, 12386, 12387, 12388, 12389, 12390, 12391, 12392, 12393, 12394, 12395, 12396, 12397, 12398,
          12399, 12400, 12401, 12402, 12403, 12404, 12405, 12406, 12407, 12408, 12409, 12410, 12411, 12412, 12413, 12414, 12415, 12416, 12417, 12418,
          12419, 12420, 12421, 12422, 12423, 12424, 12425, 12426, 12427, 12428, 12429, 12430, 12431, 12432, 12433, 12434, 12435, 12436, 12437, 12438,
          -1, -2, -3, -4, -5, 0, 0, 0 >>,
       << 12449, 12450, 12451, 12452, 12453, 12454, 12455, 12456, 12457, 12458, 12459, 12460, 12461, 12462, 12463, 12464, 12465, 12466, 12467, 12468,
          12469, 12470, 12471, 12472, 12473, 12474, 12475, 12476, 12477, 12478, 12479, 12480, 12481, 12482, 12483, 12484, 12485, 12486, 12487, 12488,
          12489, 12490, 12491, 12492, 12493, 12494, 12495, 12496, 12497, 12498, 12499, 12500, 12501, 12502, 12503, 12504, 12505, 12506, 12507, 12508,
          12509, 12510, 12511, 12512, 12513, 12514, 12515, 12516, 12517, 12518, 12519, 12520, 12521, 12522, 12523, 12524, 12525, 12526, 12527, 12528,
          12529, 12530, 12531, 12532, 12533, 12534, -6, -7, -8, -9, -10, -11, -12, -13, 913, 914, 915, 916, 917, 918,
          919, 920, 921, 922, 923, 924, 925, 926, 927, 928, 929, 931, 932, 933, 934, 935, 936, 937, 9828, 9824,
          9826, 9830, 9825, 9829, 9831, 9827, 945, 946, 947, 948, 949, 950, 951, 952, 953, 954, 955, 956, 957, 958,
          959, 960, 961, 963, 964, 965, 966, 967, 968, 969, 962, 9461, 9462, 9463, 9464, 9465, 9466, 9467, 9468, 9469,
          9470, 9750, 9751, 12320, 9742, 9728, 9729, 9730, 9731, 9832, 9649, 12784, 12785, 12786, 12787, 12788, 12789, 12790, 12791, 12792,
          12793, -14, 12794, 12795, 12796, 12797, 12798, 12799 >>,
       << 1040, 1041, 1042, 1043, 1044, 1045, 1025, 1046, 1047, 1048, 1049, 1050, 1051, 1052, 1053, 1054, 1055, 1056, 1057, 1058,
          1059, 1060, 1061, 1062, 1063, 1064, 1065, 1066, 1067, 1068, 1069, 1070, 1071, 9150, 9151, 9152, 9153, 9154, 9155, 9156,
          9157, 9158, 9159, 9160, 9161, 9162, 9163, 9164, 1072, 1073, 1074, 1075, 1076, 1077, 1105, 1078, 1079, 1080, 1081, 1082,
          1083, 1084, 1085, 1086, 1087, 1088, 1089, 1090, 1091, 1092, 1093, 1094, 1095, 1096, 1097, 1098, 1099, 1100, 1101, 1102,
          1103, 12535, 12536, 12537, 12538, 8922, 8923, 8531, 8532, 8533, 10003, 8984, 9251, 9166, 9472, 9474, 9484, 9488, 9496, 9492,
          9500, 9516, 9508, 9524, 9532, 9473, 9475, 9487, 9491, 9499, 9495, 9507, 9523, 9515, 9531, 9547, 9504, 9519, 9512, 9527,
          9535, 9501, 9520, 9509, 9528, 9538, 12881, 12882, 12883, 12884, 12885, 12886, 12887, 12888, 12889, 12890, 12891, 12892, 12893, 12894,
          12895, 12977, 12978, 12979, 12980, 12981, 12982, 12983, 12984, 12985, 12986, 12987, 12988, 12989, 12990, 12991, 0, 0, 0, 0,
          0, 0, 0, 0, 9680, 9681, 9682, 9683, 8252, 8263, 8264, 8265, 461, 462, 464, 7742, 7743, 504, 505, 465,
          466, 468, 470, 472, 474, 476, 0, 0 >>,
       << 8364, 160, 161, 164, 166, 169, 170, 171, 173, 174, 175, 178, 179, 183, 184, 185, 186, 187, 188, 189,
          190, 191, 192, 193, 194, 195, 196, 197, 198, 199, 200, 201, 202, 203, 204, 205, 206, 207, 208, 209,
          210, 211, 212, 213, 214, 216, 217, 218, 219, 220, 221, 222, 223, 224, 225, 226, 227, 228, 229, 230,
          231, 232, 233, 234, 235, 236, 237, 238, 239, 240, 241, 242, 243, 244, 245, 246, 248, 249, 250, 251,
          252, 253, 254, 255, 256, 298, 362, 274, 332, 257, 299, 363, 275, 333, 260, 728, 321, 317, 346, 352,
          350, 356, 377, 381, 379, 261, 731, 322, 318, 347, 711, 353, 351, 357, 378, 733, 382, 380, 340, 258,
          313, 262, 268, 280, 282, 270, 323, 327, 336, 344, 366, 368, 354, 341, 259, 314, 263, 269, 281, 283,
          271, 273, 324, 328, 337, 345, 367, 369, 355, 729, 264, 284, 292, 308, 348, 364, 265, 285, 293, 309,
          349, 365, 625, 651, 638, 643, 658, 620, 622, 633, 648, 598, 627, 637, 642, 656, 635, 621, 607, 626,
          669, 654, 609, 331, 624, 641, 295, 661 >>,
       << 660, 614, 664, 450, 595, 599, 644, 608, 403, 339, 338, 616, 649, 600, 629, 601, 604, 606, 592, 623,
          650, 612, 652, 596, 593, 594, 653, 613, 674, 673, 597, 657, 634, 615, 602, -15, 509, 8048, 8049, -16,
          -17, -18, -19, -20, -21, -22, -23, 8050, 8051, 865, 712, 716, 720, 721, 774, 8255, 779, 769, 772, 768,
          783, 780, 770, 741, 742, 743, 744, 745, -24, -25, 805, 812, 825, 796, 799, 800, 776, 829, 809, 815,
          734, 804, 816, 828, 820, 797, 798, 792, 793, 810, 826, 827, 771, 794, 10102, 10103, 10104, 10105, 10106, 10107,
          10108, 10109, 10110, 10111, 9451, 9452, 9453, 9454, 9455, 9456, 9457, 9458, 9459, 9460, 8560, 8561, 8562, 8563, 8564, 8565,
          8566, 8567, 8568, 8569, 8570, 8571, 9424, 9425, 9426, 9427, 9428, 9429, 9430, 9431, 9432, 9433, 9434, 9435, 9436, 9437,
          9438, 9439, 9440, 9441, 9442, 9443, 9444, 9445, 9446, 9447, 9448, 9449, 13008, 13009, 13010, 13011, 13012, 13013, 13014, 13015,
          13016, 13017, 13018, 13019, 13020, 13021, 13022, 13023, 13024, 13025, 13026, 13027, 13050, 13033, 13029, 13037, 13036, 0, 0, 0,
          0, 0, 0, 0, 0, 0, 8273, 8258 >>,
       << 9312, 9313, 9314, 9315, 9316, 9317, 9318, 9319, 9320, 9321, 9322, 9323, 9324, 9325, 9326, 9327, 9328, 9329, 9330, 9331,
          8544, 8545, 8546, 8547, 8548, 8549, 8550, 8551, 8552, 8553, 8554, 13129, 13076, 13090, 13133, 13080, 13095, 13059, 13110, 13137,
          13143, 13069, 13094, 13091, 13099, 13130, 13115, 13212, 13213, 13214, 13198, 13199, 13252, 13217, 8555, 0, 0, 0, 0, 0,
          0, 0, 13179, 12317, 12319, 8470, 13261, 8481, 12964, 12965, 12966, 12967, 12968, 12849, 12850, 12857, 13182, 13181, 13180, 0,
          0, 0, 8750, 0, 0, 0, 0, 8735, 8895, 0, 0, 0, 10070, 9758, 20465, 131083, 13314, 20008, 20015, 20016,
          20109, 20193, 20221, 20223, 20227, 20235, 20320, 20296, 20297, 20310, 20319, 20330, 20332, 20350, 20362, 20372, 20375, 64048, 20425, 20448,
          20481, 20482, 20494, 20504, 20519, 20526, 20544, 20539, 20545, 20628, 20684, 20722, 20688, 20710, 64049, 20742, 20739, 20747, 20766, 20789,
          20810, 64050, 20821, 20823, 13493, 20893, 20931, 20938, 20958, 20962, 20974, 20993, 13531, 21011, 21013, 21065, 21079, 21089, 21139, 21192,
          64051, 21196, 21200, 21206, 21211, 64052, 21232, 21243, 21248, 21255, 21276, 64053, 21345, 21347, 21373, 21395, 21405, 21426, 21522, 21543,
          21581, 21660, 21611, 21620, 21631, 21640, 21654, 21665 >>,
       << 21673, 21702, 21759, 21774, 21803, 21813, 21840, 21854, 21889, 21894, 21902, 64054, 21933, 21966, 64055, 22024, 22030, 22075, 22089, 22134,
          22118, 64056, 22127, 22129, 22130, 22169, 22174, 22185, 22188, 22195, 22217, 22218, 22282, 135741, 22305, 22319, 22323, 22324, 22384, 22391,
          22396, 22428, 64015, 135963, 22456, 22471, 22472, 22479, 22500, 22509, 22517, 22518, 22527, 22537, 64016, 22625, 22628, 64057, 22652, 22665,
          22686, 64058, 22697, 136302, 22738, 22734, 22740, 22746, 22752, 22761, 22796, 34369, 22877, 22893, 22923, 22930, 22948, 22979, 22994, 23005,
          23059, 23075, 23143, 23149, 23159, 23166, 23172, 23198, 23207, 23236, 137405, 23321, 23333, 21085, 20124, 21782, 23043, 38463, 21696, 24859,
          25384, 23030, 36898, 33909, 33564, 31312, 24746, 25569, 28197, 26093, 33894, 33446, 39925, 26771, 22311, 26017, 25201, 23451, 22992, 34427,
          39156, 32098, 32190, 39822, 25110, 31903, 34999, 23433, 24245, 25353, 26263, 26696, 38343, 38797, 26447, 20197, 20234, 20301, 20381, 20553,
          22258, 22839, 22996, 23041, 23561, 24799, 24847, 24944, 26131, 26885, 28858, 30031, 30064, 31227, 32173, 32239, 32963, 33806, 34915, 35586,
          36949, 36986, 21307, 20117, 20133, 22495, 32946, 37057, 30959, 19968, 22769, 28322, 36920, 31282, 33576, 33419, 39983, 20801, 21360, 21693,
          21729, 22240, 23035, 24341, 39154, 28139, 32996, 34093 >>,
       << 38498, 38512, 38560, 38907, 21515, 21491, 23431, 28879, 32701, 36802, 38632, 21359, 40284, 31418, 19985, 30867, 33276, 28198, 22040, 21764,
          27421, 34074, 39995, 23013, 21417, 28006, 29916, 38287, 22082, 20113, 36939, 38642, 33615, 39180, 21473, 21942, 23344, 24433, 26144, 26355,
          26628, 27704, 27891, 27945, 29787, 30408, 31310, 38964, 33521, 34907, 35424, 37613, 28082, 30123, 30410, 39365, 24742, 35585, 36234, 38322,
          27022, 21421, 20870, 22290, 22576, 22852, 23476, 24310, 24616, 25513, 25588, 27839, 28436, 28814, 28948, 29017, 29141, 29503, 32257, 33398,
          33489, 34199, 36960, 37467, 40219, 22633, 26044, 27738, 29989, 20985, 22830, 22885, 24448, 24540, 25276, 26106, 27178, 27431, 27572, 29579,
          32705, 35158, 40236, 40206, 40644, 23713, 27798, 33659, 20740, 23627, 25014, 33222, 26742, 29281, 20057, 20474, 21368, 24681, 28201, 31311,
          38899, 19979, 21270, 20206, 20309, 20285, 20385, 20339, 21152, 21487, 22025, 22799, 23233, 23478, 23521, 31185, 26247, 26524, 26550, 27468,
          27827, 28779, 29634, 31117, 31166, 31292, 31623, 33457, 33499, 33540, 33655, 33775, 33747, 34662, 35506, 22057, 36008, 36838, 36942, 38686,
          34442, 20420, 23784, 25105, 29273, 30011, 33253, 33469, 34558, 36032, 38597, 39187, 39381, 20171, 20250, 35299, 22238, 22602, 22730, 24315,
          24555, 24618, 24724, 24674, 25040, 25106, 25296, 25913 >>,
       << 39745, 26214, 26800, 28023, 28784, 30028, 30342, 32117, 33445, 34809, 38283, 38542, 35997, 20977, 21182, 22806, 21683, 23475, 23830, 24936,
          27010, 28079, 30861, 33995, 34903, 35442, 37799, 39608, 28012, 39336, 34521, 22435, 26623, 34510, 37390, 21123, 22151, 21508, 24275, 25313,
          25785, 26684, 26680, 27579, 29554, 30906, 31339, 35226, 35282, 36203, 36611, 37101, 38307, 38548, 38761, 23398, 23731, 27005, 38989, 38990,
          25499, 31520, 27179, 27263, 26806, 39949, 28511, 21106, 21917, 24688, 25324, 27963, 28167, 28369, 33883, 35088, 36676, 19988, 39993, 21494,
          26907, 27194, 38788, 26666, 20828, 31427, 33970, 37340, 37772, 22107, 40232, 26658, 33541, 33841, 31909, 21000, 33477, 29926, 20094, 20355,
          20896, 23506, 21002, 21208, 21223, 24059, 21914, 22570, 23014, 23436, 23448, 23515, 24178, 24185, 24739, 24863, 24931, 25022, 25563, 25954,
          26577, 26707, 26874, 27454, 27475, 27735, 28450, 28567, 28485, 29872, 29976, 30435, 30475, 31487, 31649, 31777, 32233, 32566, 32752, 32925,
          33382, 33694, 35251, 35532, 36011, 36996, 37969, 38291, 38289, 38306, 38501, 38867, 39208, 33304, 20024, 21547, 23736, 24012, 29609, 30284,
          30524, 23721, 32747, 36107, 38593, 38929, 38996, 39000, 20225, 20238, 21361, 21916, 22120, 22522, 22855, 23305, 23492, 23696, 24076, 24190,
          24524, 25582, 26426, 26071, 26082, 26399, 26827, 26820 >>,
       << 27231, 24112, 27589, 27671, 27773, 30079, 31048, 23395, 31232, 32000, 24509, 35215, 35352, 36020, 36215, 36556, 36637, 39138, 39438, 39740,
          20096, 20605, 20736, 22931, 23452, 25135, 25216, 25836, 27450, 29344, 30097, 31047, 32681, 34811, 35516, 35696, 25516, 33738, 38816, 21513,
          21507, 21931, 26708, 27224, 35440, 30759, 26485, 40653, 21364, 23458, 33050, 34384, 36870, 19992, 20037, 20167, 20241, 21450, 21560, 23470,
          24339, 24613, 25937, 26429, 27714, 27762, 27875, 28792, 29699, 31350, 31406, 31496, 32026, 31998, 32102, 26087, 29275, 21435, 23621, 24040,
          25298, 25312, 25369, 28192, 34394, 35377, 36317, 37624, 28417, 31142, 39770, 20136, 20139, 20140, 20379, 20384, 20689, 20807, 31478, 20849,
          20982, 21332, 21281, 21375, 21483, 21932, 22659, 23777, 24375, 24394, 24623, 24656, 24685, 25375, 25945, 27211, 27841, 29378, 29421, 30703,
          33016, 33029, 33288, 34126, 37111, 37857, 38911, 39255, 39514, 20208, 20957, 23597, 26241, 26989, 23616, 26354, 26997, 29577, 26704, 31873,
          20677, 21220, 22343, 24062, 37670, 26020, 27427, 27453, 29748, 31105, 31165, 31563, 32202, 33465, 33740, 34943, 35167, 35641, 36817, 37329,
          21535, 37504, 20061, 20534, 21477, 21306, 29399, 29590, 30697, 33510, 36527, 39366, 39368, 39378, 20855, 24858, 34398, 21936, 31354, 20598,
          23507, 36935, 38533, 20018, 27355, 37351, 23633, 23624 >>,
       << 25496, 31391, 27795, 38772, 36705, 31402, 29066, 38536, 31874, 26647, 32368, 26705, 37740, 21234, 21531, 34219, 35347, 32676, 36557, 37089,
          21350, 34952, 31041, 20418, 20670, 21009, 20804, 21843, 22317, 29674, 22411, 22865, 24418, 24452, 24693, 24950, 24935, 25001, 25522, 25658,
          25964, 26223, 26690, 28179, 30054, 31293, 31995, 32076, 32153, 32331, 32619, 33550, 33610, 34509, 35336, 35427, 35686, 36605, 38938, 40335,
          33464, 36814, 39912, 21127, 25119, 25731, 28608, 38553, 26689, 20625, 27424, 27770, 28500, 31348, 32080, 34880, 35363, 26376, 20214, 20537,
          20518, 20581, 20860, 21048, 21091, 21927, 22287, 22533, 23244, 24314, 25010, 25080, 25331, 25458, 26908, 27177, 29309, 29356, 29486, 30740,
          30831, 32121, 30476, 32937, 35211, 35609, 36066, 36562, 36963, 37749, 38522, 38997, 39443, 40568, 20803, 21407, 21427, 24187, 24358, 28187,
          28304, 29572, 29694, 32067, 33335, 35328, 35578, 38480, 20046, 20491, 21476, 21628, 22266, 22993, 23396, 24049, 24235, 24359, 25144, 25925,
          26543, 28246, 29392, 31946, 34996, 32929, 32993, 33776, 34382, 35463, 36328, 37431, 38599, 39015, 40723, 20116, 20114, 20237, 21320, 21577,
          21566, 23087, 24460, 24481, 24735, 26791, 27278, 29786, 30849, 35486, 35492, 35703, 37264, 20062, 39881, 20132, 20348, 20399, 20505, 20502,
          20809, 20844, 21151, 21177, 21246, 21402, 21475, 21521 >>,
       << 21518, 21897, 22353, 22434, 22909, 23380, 23389, 23439, 24037, 24039, 24055, 24184, 24195, 24218, 24247, 24344, 24658, 24908, 25239, 25304,
          25511, 25915, 26114, 26179, 26356, 26477, 26657, 26775, 27083, 27743, 27946, 28009, 28207, 28317, 30002, 30343, 30828, 31295, 31968, 32005,
          32024, 32094, 32177, 32789, 32771, 32943, 32945, 33108, 33167, 33322, 33618, 34892, 34913, 35611, 36002, 36092, 37066, 37237, 37489, 30783,
          37628, 38308, 38477, 38917, 39321, 39640, 40251, 21083, 21163, 21495, 21512, 22741, 25335, 28640, 35946, 36703, 40633, 20811, 21051, 21578,
          22269, 31296, 37239, 40288, 40658, 29508, 28425, 33136, 29969, 24573, 24794, 39592, 29403, 36796, 27492, 38915, 20170, 22256, 22372, 22718,
          23130, 24680, 25031, 26127, 26118, 26681, 26801, 28151, 30165, 32058, 33390, 39746, 20123, 20304, 21449, 21766, 23919, 24038, 24046, 26619,
          27801, 29811, 30722, 35408, 37782, 35039, 22352, 24231, 25387, 20661, 20652, 20877, 26368, 21705, 22622, 22971, 23472, 24425, 25165, 25505,
          26685, 27507, 28168, 28797, 37319, 29312, 30741, 30758, 31085, 25998, 32048, 33756, 35009, 36617, 38555, 21092, 22312, 26448, 32618, 36001,
          20916, 22338, 38442, 22586, 27018, 32948, 21682, 23822, 22524, 30869, 40442, 20316, 21066, 21643, 25662, 26152, 26388, 26613, 31364, 31574,
          32034, 37679, 26716, 39853, 31545, 21273, 20874, 21047 >>,
       << 23519, 25334, 25774, 25830, 26413, 27578, 34217, 38609, 30352, 39894, 25420, 37638, 39851, 30399, 26194, 19977, 20632, 21442, 23665, 24808,
          25746, 25955, 26719, 29158, 29642, 29987, 31639, 32386, 34453, 35715, 36059, 37240, 39184, 26028, 26283, 27531, 20181, 20180, 20282, 20351,
          21050, 21496, 21490, 21987, 22235, 22763, 22987, 22985, 23039, 23376, 23629, 24066, 24107, 24535, 24605, 25351, 25903, 23388, 26031, 26045,
          26088, 26525, 27490, 27515, 27663, 29509, 31049, 31169, 31992, 32025, 32043, 32930, 33026, 33267, 35222, 35422, 35433, 35430, 35468, 35566,
          36039, 36060, 38604, 39164, 27503, 20107, 20284, 20365, 20816, 23383, 23546, 24904, 25345, 26178, 27425, 28363, 27835, 29246, 29885, 30164,
          30913, 31034, 32780, 32819, 33258, 33940, 36766, 27728, 40575, 24335, 35672, 40235, 31482, 36600, 23437, 38635, 19971, 21489, 22519, 22833,
          23241, 23460, 24713, 28287, 28422, 30142, 36074, 23455, 34048, 31712, 20594, 26612, 33437, 23649, 34122, 32286, 33294, 20889, 23556, 25448,
          36198, 26012, 29038, 31038, 32023, 32773, 35613, 36554, 36974, 34503, 37034, 20511, 21242, 23610, 26451, 28796, 29237, 37196, 37320, 37675,
          33509, 23490, 24369, 24825, 20027, 21462, 23432, 25163, 26417, 27530, 29417, 29664, 31278, 33131, 36259, 37202, 39318, 20754, 21463, 21610,
          23551, 25480, 27193, 32172, 38656, 22234, 21454, 21608 >>,
       << 23447, 23601, 24030, 20462, 24833, 25342, 27954, 31168, 31179, 32066, 32333, 32722, 33261, 33311, 33936, 34886, 35186, 35728, 36468, 36655,
          36913, 37195, 37228, 38598, 37276, 20160, 20303, 20805, 21313, 24467, 25102, 26580, 27713, 28171, 29539, 32294, 37325, 37507, 21460, 22809,
          23487, 28113, 31069, 32302, 31899, 22654, 29087, 20986, 34899, 36848, 20426, 23803, 26149, 30636, 31459, 33308, 39423, 20934, 24490, 26092,
          26991, 27529, 28147, 28310, 28516, 30462, 32020, 24033, 36981, 37255, 38918, 20966, 21021, 25152, 26257, 26329, 28186, 24246, 32210, 32626,
          26360, 34223, 34295, 35576, 21161, 21465, 22899, 24207, 24464, 24661, 37604, 38500, 20663, 20767, 21213, 21280, 21319, 21484, 21736, 21830,
          21809, 22039, 22888, 22974, 23100, 23477, 23558, 23567, 23569, 23578, 24196, 24202, 24288, 24432, 25215, 25220, 25307, 25484, 25463, 26119,
          26124, 26157, 26230, 26494, 26786, 27167, 27189, 27836, 28040, 28169, 28248, 28988, 28966, 29031, 30151, 30465, 30813, 30977, 31077, 31216,
          31456, 31505, 31911, 32057, 32918, 33750, 33931, 34121, 34909, 35059, 35359, 35388, 35412, 35443, 35937, 36062, 37284, 37478, 37758, 37912,
          38556, 38808, 19978, 19976, 19998, 20055, 20887, 21104, 22478, 22580, 22732, 23330, 24120, 24773, 25854, 26465, 26454, 27972, 29366, 30067,
          31331, 33976, 35698, 37304, 37664, 22065, 22516, 39166 >>,
       << 25325, 26893, 27542, 29165, 32340, 32887, 33394, 35302, 39135, 34645, 36785, 23611, 20280, 20449, 20405, 21767, 23072, 23517, 23529, 24515,
          24910, 25391, 26032, 26187, 26862, 27035, 28024, 28145, 30003, 30137, 30495, 31070, 31206, 32051, 33251, 33455, 34218, 35242, 35386, 36523,
          36763, 36914, 37341, 38663, 20154, 20161, 20995, 22645, 22764, 23563, 29978, 23613, 33102, 35338, 36805, 38499, 38765, 31525, 35535, 38920,
          37218, 22259, 21416, 36887, 21561, 22402, 24101, 25512, 27700, 28810, 30561, 31883, 32736, 34928, 36930, 37204, 37648, 37656, 38543, 29790,
          39620, 23815, 23913, 25968, 26530, 36264, 38619, 25454, 26441, 26905, 33733, 38935, 38592, 35070, 28548, 25722, 23544, 19990, 28716, 30045,
          26159, 20932, 21046, 21218, 22995, 24449, 24615, 25104, 25919, 25972, 26143, 26228, 26866, 26646, 27491, 28165, 29298, 29983, 30427, 31934,
          32854, 22768, 35069, 35199, 35488, 35475, 35531, 36893, 37266, 38738, 38745, 25993, 31246, 33030, 38587, 24109, 24796, 25114, 26021, 26132,
          26512, 30707, 31309, 31821, 32318, 33034, 36012, 36196, 36321, 36447, 30889, 20999, 25305, 25509, 25666, 25240, 35373, 31363, 31680, 35500,
          38634, 32118, 33292, 34633, 20185, 20808, 21315, 21344, 23459, 23554, 23574, 24029, 25126, 25159, 25776, 26643, 26676, 27849, 27973, 27927,
          26579, 28508, 29006, 29053, 26059, 31359, 31661, 32218 >>,
       << 32330, 32680, 33146, 33307, 33337, 34214, 35438, 36046, 36341, 36984, 36983, 37549, 37521, 38275, 39854, 21069, 21892, 28472, 28982, 20840,
          31109, 32341, 33203, 31950, 22092, 22609, 23720, 25514, 26366, 26365, 26970, 29401, 30095, 30094, 30990, 31062, 31199, 31895, 32032, 32068,
          34311, 35380, 38459, 36961, 40736, 20711, 21109, 21452, 21474, 20489, 21930, 22766, 22863, 29245, 23435, 23652, 21277, 24803, 24819, 25436,
          25475, 25407, 25531, 25805, 26089, 26361, 24035, 27085, 27133, 28437, 29157, 20105, 30185, 30456, 31379, 31967, 32207, 32156, 32865, 33609,
          33624, 33900, 33980, 34299, 35013, 36208, 36865, 36973, 37783, 38684, 39442, 20687, 22679, 24974, 33235, 34101, 36104, 36896, 20419, 20596,
          21063, 21363, 24687, 25417, 26463, 28204, 36275, 36895, 20439, 23646, 36042, 26063, 32154, 21330, 34966, 20854, 25539, 23384, 23403, 23562,
          25613, 26449, 36956, 20182, 22810, 22826, 27760, 35409, 21822, 22549, 22949, 24816, 25171, 26561, 33333, 26965, 38464, 39364, 39464, 20307,
          22534, 23550, 32784, 23729, 24111, 24453, 24608, 24907, 25140, 26367, 27888, 28382, 32974, 33151, 33492, 34955, 36024, 36864, 36910, 38538,
          40667, 39899, 20195, 21488, 22823, 31532, 37261, 38988, 40441, 28381, 28711, 21331, 21828, 23429, 25176, 25246, 25299, 27810, 28655, 29730,
          35351, 37944, 28609, 35582, 33592, 20967, 34552, 21482 >>,
       << 21481, 20294, 36948, 36784, 22890, 33073, 24061, 31466, 36799, 26842, 35895, 29432, 40008, 27197, 35504, 20025, 21336, 22022, 22374, 25285,
          25506, 26086, 27470, 28129, 28251, 28845, 30701, 31471, 31658, 32187, 32829, 32966, 34507, 35477, 37723, 22243, 22727, 24382, 26029, 26262,
          27264, 27573, 30007, 35527, 20516, 30693, 22320, 24347, 24677, 26234, 27744, 30196, 31258, 32622, 33268, 34584, 36933, 39347, 31689, 30044,
          31481, 31569, 33988, 36880, 31209, 31378, 33590, 23265, 30528, 20013, 20210, 23449, 24544, 25277, 26172, 26609, 27880, 34411, 34935, 35387,
          37198, 37619, 39376, 27159, 28710, 29482, 33511, 33879, 36015, 19969, 20806, 20939, 21899, 23541, 24086, 24115, 24193, 24340, 24373, 24427,
          24500, 25074, 25361, 26274, 26397, 28526, 29266, 30010, 30522, 32884, 33081, 33144, 34678, 35519, 35548, 36229, 36339, 37530, 38263, 38914,
          40165, 21189, 25431, 30452, 26389, 27784, 29645, 36035, 37806, 38515, 27941, 22684, 26894, 27084, 36861, 37786, 30171, 36890, 22618, 26626,
          25524, 27131, 20291, 28460, 26584, 36795, 34086, 32180, 37716, 26943, 28528, 22378, 22775, 23340, 32044, 29226, 21514, 37347, 40372, 20141,
          20302, 20572, 20597, 21059, 35998, 21576, 22564, 23450, 24093, 24213, 24237, 24311, 24351, 24716, 25269, 25402, 25552, 26799, 27712, 30855,
          31118, 31243, 32224, 33351, 35330, 35558, 36420, 36883 >>,
       << 37048, 37165, 37336, 40718, 27877, 25688, 25826, 25973, 28404, 30340, 31515, 36969, 37841, 28346, 21746, 24505, 25764, 36685, 36845, 37444,
          20856, 22635, 22825, 23637, 24215, 28155, 32399, 29980, 36028, 36578, 39003, 28857, 20253, 27583, 28593, 30000, 38651, 20814, 21520, 22581,
          22615, 22956, 23648, 24466, 26007, 26460, 28193, 30331, 33759, 36077, 36884, 37117, 37709, 30757, 30778, 21162, 24230, 22303, 22900, 24594,
          20498, 20826, 20908, 20941, 20992, 21776, 22612, 22616, 22871, 23445, 23798, 23947, 24764, 25237, 25645, 26481, 26691, 26812, 26847, 30423,
          28120, 28271, 28059, 28783, 29128, 24403, 30168, 31095, 31561, 31572, 31570, 31958, 32113, 21040, 33891, 34153, 34276, 35342, 35588, 35910,
          36367, 36867, 36879, 37913, 38518, 38957, 39472, 38360, 20685, 21205, 21516, 22530, 23566, 24999, 25758, 27934, 30643, 31461, 33012, 33796,
          36947, 37509, 23776, 40199, 21311, 24471, 24499, 28060, 29305, 30563, 31167, 31716, 27602, 29420, 35501, 26627, 27233, 20984, 31361, 26932,
          23626, 40182, 33515, 23493, 37193, 28702, 22136, 23663, 24775, 25958, 27788, 35930, 36929, 38931, 21585, 26311, 37389, 22856, 37027, 20869,
          20045, 20970, 34201, 35598, 28760, 25466, 37707, 26978, 39348, 32260, 30071, 21335, 26976, 36575, 38627, 27741, 20108, 23612, 24336, 36841,
          21250, 36049, 32905, 34425, 24319, 26085, 20083, 20837 >>,
       << 22914, 23615, 38894, 20219, 22922, 24525, 35469, 28641, 31152, 31074, 23527, 33905, 29483, 29105, 24180, 24565, 25467, 25754, 29123, 31896,
          20035, 24316, 20043, 22492, 22178, 24745, 28611, 32013, 33021, 33075, 33215, 36786, 35223, 34468, 24052, 25226, 25773, 35207, 26487, 27874,
          27966, 29750, 30772, 23110, 32629, 33453, 39340, 20467, 24259, 25309, 25490, 25943, 26479, 30403, 29260, 32972, 32954, 36649, 37197, 20493,
          22521, 23186, 26757, 26995, 29028, 29437, 36023, 22770, 36064, 38506, 36889, 34687, 31204, 30695, 33833, 20271, 21093, 21338, 25293, 26575,
          27850, 30333, 31636, 31893, 33334, 34180, 36843, 26333, 28448, 29190, 32283, 33707, 39361, 40614, 20989, 31665, 30834, 31672, 32903, 31560,
          27368, 24161, 32908, 30033, 30048, 20843, 37474, 28300, 30330, 37271, 39658, 20240, 32624, 25244, 31567, 38309, 40169, 22138, 22617, 34532,
          38588, 20276, 21028, 21322, 21453, 21467, 24070, 25644, 26001, 26495, 27710, 27726, 29256, 29359, 29677, 30036, 32321, 33324, 34281, 36009,
          31684, 37318, 29033, 38930, 39151, 25405, 26217, 30058, 30436, 30928, 34115, 34542, 21290, 21329, 21542, 22915, 24199, 24444, 24754, 25161,
          25209, 25259, 26000, 27604, 27852, 30130, 30382, 30865, 31192, 32203, 32631, 32933, 34987, 35513, 36027, 36991, 38750, 39131, 27147, 31800,
          20633, 23614, 24494, 26503, 27608, 29749, 30473, 32654 >>,
       << 40763, 26570, 31255, 21305, 30091, 39661, 24422, 33181, 33777, 32920, 24380, 24517, 30050, 31558, 36924, 26727, 23019, 23195, 32016, 30334,
          35628, 20469, 24426, 27161, 27703, 28418, 29922, 31080, 34920, 35413, 35961, 24287, 25551, 30149, 31186, 33495, 37672, 37618, 33948, 34541,
          39981, 21697, 24428, 25996, 27996, 28693, 36007, 36051, 38971, 25935, 29942, 19981, 20184, 22496, 22827, 23142, 23500, 20904, 24067, 24220,
          24598, 25206, 25975, 26023, 26222, 28014, 29238, 31526, 33104, 33178, 33433, 35676, 36000, 36070, 36212, 38428, 38468, 20398, 25771, 27494,
          33310, 33889, 34154, 37096, 23553, 26963, 39080, 33914, 34135, 20239, 21103, 24489, 24133, 26381, 31119, 33145, 35079, 35206, 28149, 24343,
          25173, 27832, 20175, 29289, 39826, 20998, 21563, 22132, 22707, 24996, 25198, 28954, 22894, 31881, 31966, 32027, 38640, 25991, 32862, 19993,
          20341, 20853, 22592, 24163, 24179, 24330, 26564, 20006, 34109, 38281, 38491, 31859, 38913, 20731, 22721, 30294, 30887, 21029, 30629, 34065,
          31622, 20559, 22793, 29255, 31687, 32232, 36794, 36820, 36941, 20415, 21193, 23081, 24321, 38829, 20445, 33303, 37610, 22275, 25429, 27497,
          29995, 35036, 36628, 31298, 21215, 22675, 24917, 25098, 26286, 27597, 31807, 33769, 20515, 20472, 21253, 21574, 22577, 22857, 23453, 23792,
          23791, 23849, 24214, 25265, 25447, 25918, 26041, 26379 >>,
       << 27861, 27873, 28921, 30770, 32299, 32990, 33459, 33804, 34028, 34562, 35090, 35370, 35914, 37030, 37586, 39165, 40179, 40300, 20047, 20129,
          20621, 21078, 22346, 22952, 24125, 24536, 24537, 25151, 26292, 26395, 26576, 26834, 20882, 32033, 32938, 33192, 35584, 35980, 36031, 37502,
          38450, 21536, 38956, 21271, 20693, 21340, 22696, 25778, 26420, 29287, 30566, 31302, 37350, 21187, 27809, 27526, 22528, 24140, 22868, 26412,
          32763, 20961, 30406, 25705, 30952, 39764, 40635, 22475, 22969, 26151, 26522, 27598, 21737, 27097, 24149, 33180, 26517, 39850, 26622, 40018,
          26717, 20134, 20451, 21448, 25273, 26411, 27819, 36804, 20397, 32365, 40639, 19975, 24930, 28288, 28459, 34067, 21619, 26410, 39749, 24051,
          31637, 23724, 23494, 34588, 28234, 34001, 31252, 33032, 22937, 31885, 27665, 30496, 21209, 22818, 28961, 29279, 30683, 38695, 40289, 26891,
          23167, 23064, 20901, 21517, 21629, 26126, 30431, 36855, 37528, 40180, 23018, 29277, 28357, 20813, 26825, 32191, 32236, 38754, 40634, 25720,
          27169, 33538, 22916, 23391, 27611, 29467, 30450, 32178, 32791, 33945, 20786, 26408, 40665, 30446, 26466, 21247, 39173, 23588, 25147, 31870,
          36016, 21839, 24758, 32011, 38272, 21249, 20063, 20918, 22812, 29242, 32822, 37326, 24357, 30690, 21380, 24441, 32004, 34220, 35379, 36493,
          38742, 26611, 34222, 37971, 24841, 24840, 27833, 30290 >>,
       << 35565, 36664, 21807, 20305, 20778, 21191, 21451, 23461, 24189, 24736, 24962, 25558, 26377, 26586, 28263, 28044, 29494, 29495, 30001, 31056,
          35029, 35480, 36938, 37009, 37109, 38596, 34701, 22805, 20104, 20313, 19982, 35465, 36671, 38928, 20653, 24188, 22934, 23481, 24248, 25562,
          25594, 25793, 26332, 26954, 27096, 27915, 28342, 29076, 29992, 31407, 32650, 32768, 33865, 33993, 35201, 35617, 36362, 36965, 38525, 39178,
          24958, 25233, 27442, 27779, 28020, 32716, 32764, 28096, 32645, 34746, 35064, 26469, 33713, 38972, 38647, 27931, 32097, 33853, 37226, 20081,
          21365, 23888, 27396, 28651, 34253, 34349, 35239, 21033, 21519, 23653, 26446, 26792, 29702, 29827, 30178, 35023, 35041, 37324, 38626, 38520,
          24459, 29575, 31435, 33870, 25504, 30053, 21129, 27969, 28316, 29705, 30041, 30827, 31890, 38534, 31452, 40845, 20406, 24942, 26053, 34396,
          20102, 20142, 20698, 20001, 20940, 23534, 26009, 26753, 28092, 29471, 30274, 30637, 31260, 31975, 33391, 35538, 36988, 37327, 38517, 38936,
          21147, 32209, 20523, 21400, 26519, 28107, 29136, 29747, 33256, 36650, 38563, 40023, 40607, 29792, 22593, 28057, 32047, 39006, 20196, 20278,
          20363, 20919, 21169, 23994, 24604, 29618, 31036, 33491, 37428, 38583, 38646, 38666, 40599, 40802, 26278, 27508, 21015, 21155, 28872, 35010,
          24265, 24651, 24976, 28451, 29001, 31806, 32244, 32879 >>,
       << 34030, 36899, 37676, 21570, 39791, 27347, 28809, 36034, 36335, 38706, 21172, 23105, 24266, 24324, 26391, 27004, 27028, 28010, 28431, 29282,
          29436, 31725, 32769, 32894, 34635, 37070, 20845, 40595, 31108, 32907, 37682, 35542, 20525, 21644, 35441, 27498, 36036, 33031, 24785, 26528,
          40434, 20121, 20120, 39952, 35435, 34241, 34152, 26880, 28286, 30871, 33109, 134047, 23361, 23382, 23421, 23443, 23512, 23532, 23570, 23582,
          23587, 23595, 14221, 23650, 64059, 64060, 136884, 23674, 23695, 23711, 23715, 23722, 23738, 23755, 23760, 23762, 23796, 138804, 14306, 23821,
          23847, 64017, 23878, 23879, 23891, 23882, 23917, 23937, 23968, 23972, 23975, 23992, 24011, 21534, 24332, 19984, 19989, 20010, 20017, 20022,
          20028, 20031, 20034, 20054, 20056, 20098, 20101, 35947, 20106, 33298, 24333, 20110, 20126, 20127, 20128, 20130, 20144, 20147, 20150, 20174,
          20173, 20164, 20166, 20162, 20183, 20190, 20205, 20191, 20215, 20233, 20314, 20272, 20315, 20317, 20311, 20295, 20342, 20360, 20367, 20376,
          20347, 20329, 20336, 20369, 20335, 20358, 20374, 20760, 20436, 20447, 20430, 20440, 20443, 20433, 20442, 20432, 20452, 20453, 20506, 20520,
          20500, 20522, 20517, 20485, 20252, 20470, 20513, 20521, 20524, 20478, 20463, 20497, 20486, 20547, 20551, 26371, 20565, 20560, 20552, 20570,
          20566, 20588, 20600, 20608, 20634, 20613, 20660, 20658 >>,
       << 20681, 20682, 20659, 20674, 20694, 20702, 20709, 20717, 20707, 20718, 20729, 20725, 20745, 20737, 20738, 20758, 20757, 20756, 20762, 20769,
          20794, 20791, 20796, 20795, 20799, 20800, 20818, 20812, 20820, 20834, 31480, 20841, 20842, 20846, 20864, 20866, 22232, 20876, 20873, 20879,
          20881, 20883, 20885, 20886, 20900, 20902, 20898, 20905, 20906, 20907, 20915, 20913, 20914, 20912, 20917, 20925, 20933, 20937, 20955, 20960,
          34389, 20969, 20973, 20976, 20981, 20990, 20996, 21003, 21012, 21006, 21031, 21034, 21038, 21043, 21049, 21071, 21060, 21067, 21068, 21086,
          21076, 21098, 21108, 21097, 21107, 21119, 21117, 21133, 21140, 21138, 21105, 21128, 21137, 36776, 36775, 21164, 21165, 21180, 21173, 21185,
          21197, 21207, 21214, 21219, 21222, 39149, 21216, 21235, 21237, 21240, 21241, 21254, 21256, 30008, 21261, 21264, 21263, 21269, 21274, 21283,
          21295, 21297, 21299, 21304, 21312, 21318, 21317, 19991, 21321, 21325, 20950, 21342, 21353, 21358, 22808, 21371, 21367, 21378, 21398, 21408,
          21414, 21413, 21422, 21424, 21430, 21443, 31762, 38617, 21471, 26364, 29166, 21486, 21480, 21485, 21498, 21505, 21565, 21568, 21548, 21549,
          21564, 21550, 21558, 21545, 21533, 21582, 21647, 21621, 21646, 21599, 21617, 21623, 21616, 21650, 21627, 21632, 21622, 21636, 21648, 21638,
          21703, 21666, 21688, 21669, 21676, 21700, 21704, 21672 >>,
       << 21675, 21698, 21668, 21694, 21692, 21720, 21733, 21734, 21775, 21780, 21757, 21742, 21741, 21754, 21730, 21817, 21824, 21859, 21836, 21806,
          21852, 21829, 21846, 21847, 21816, 21811, 21853, 21913, 21888, 21679, 21898, 21919, 21883, 21886, 21912, 21918, 21934, 21884, 21891, 21929,
          21895, 21928, 21978, 21957, 21983, 21956, 21980, 21988, 21972, 22036, 22007, 22038, 22014, 22013, 22043, 22009, 22094, 22096, 29151, 22068,
          22070, 22066, 22072, 22123, 22116, 22063, 22124, 22122, 22150, 22144, 22154, 22176, 22164, 22159, 22181, 22190, 22198, 22196, 22210, 22204,
          22209, 22211, 22208, 22216, 22222, 22225, 22227, 22231, 22254, 22265, 22272, 22271, 22276, 22281, 22280, 22283, 22285, 22291, 22296, 22294,
          21959, 22300, 22310, 22327, 22328, 22350, 22331, 22336, 22351, 22377, 22464, 22408, 22369, 22399, 22409, 22419, 22432, 22451, 22436, 22442,
          22448, 22467, 22470, 22484, 22482, 22483, 22538, 22486, 22499, 22539, 22553, 22557, 22642, 22561, 22626, 22603, 22640, 27584, 22610, 22589,
          22649, 22661, 22713, 22687, 22699, 22714, 22750, 22715, 22712, 22702, 22725, 22739, 22737, 22743, 22745, 22744, 22757, 22748, 22756, 22751,
          22767, 22778, 22777, 22779, 22780, 22781, 22786, 22794, 22800, 22811, 26790, 22821, 22828, 22829, 22834, 22840, 22846, 31442, 22869, 22864,
          22862, 22874, 22872, 22882, 22880, 22887, 22892, 22889 >>,
       << 22904, 22913, 22941, 20318, 20395, 22947, 22962, 22982, 23016, 23004, 22925, 23001, 23002, 23077, 23071, 23057, 23068, 23049, 23066, 23104,
          23148, 23113, 23093, 23094, 23138, 23146, 23194, 23228, 23230, 23243, 23234, 23229, 23267, 23255, 23270, 23273, 23254, 23290, 23291, 23308,
          23307, 23318, 23346, 23248, 23338, 23350, 23358, 23363, 23365, 23360, 23377, 23381, 23386, 23387, 23397, 23401, 23408, 23411, 23413, 23416,
          25992, 23418, 23424, 23427, 23462, 23480, 23491, 23495, 23497, 23508, 23504, 23524, 23526, 23522, 23518, 23525, 23531, 23536, 23542, 23539,
          23557, 23559, 23560, 23565, 23571, 23584, 23586, 23592, 23608, 23609, 23617, 23622, 23630, 23635, 23632, 23631, 23409, 23660, 23662, 20066,
          23670, 23673, 23692, 23697, 23700, 22939, 23723, 23739, 23734, 23740, 23735, 23749, 23742, 23751, 23769, 23785, 23805, 23802, 23789, 23948,
          23786, 23819, 23829, 23831, 23900, 23839, 23835, 23825, 23828, 23842, 23834, 23833, 23832, 23884, 23890, 23886, 23883, 23916, 23923, 23926,
          23943, 23940, 23938, 23970, 23965, 23980, 23982, 23997, 23952, 23991, 23996, 24009, 24013, 24019, 24018, 24022, 24027, 24043, 24050, 24053,
          24075, 24090, 24089, 24081, 24091, 24118, 24119, 24132, 24131, 24128, 24142, 24151, 24148, 24159, 24162, 24164, 24135, 24181, 24182, 24186,
          40636, 24191, 24224, 24257, 24258, 24264, 24272, 24271 >>,
       << 24278, 24291, 24285, 24282, 24283, 24290, 24289, 24296, 24297, 24300, 24305, 24307, 24304, 24308, 24312, 24318, 24323, 24329, 24413, 24412,
          24331, 24337, 24342, 24361, 24365, 24376, 24385, 24392, 24396, 24398, 24367, 24401, 24406, 24407, 24409, 24417, 24429, 24435, 24439, 24451,
          24450, 24447, 24458, 24456, 24465, 24455, 24478, 24473, 24472, 24480, 24488, 24493, 24508, 24534, 24571, 24548, 24568, 24561, 24541, 24755,
          24575, 24609, 24672, 24601, 24592, 24617, 24590, 24625, 24603, 24597, 24619, 24614, 24591, 24634, 24666, 24641, 24682, 24695, 24671, 24650,
          24646, 24653, 24675, 24643, 24676, 24642, 24684, 24683, 24665, 24705, 24717, 24807, 24707, 24730, 24708, 24731, 24726, 24727, 24722, 24743,
          24715, 24801, 24760, 24800, 24787, 24756, 24560, 24765, 24774, 24757, 24792, 24909, 24853, 24838, 24822, 24823, 24832, 24820, 24826, 24835,
          24865, 24827, 24817, 24845, 24846, 24903, 24894, 24872, 24871, 24906, 24895, 24892, 24876, 24884, 24893, 24898, 24900, 24947, 24951, 24920,
          24921, 24922, 24939, 24948, 24943, 24933, 24945, 24927, 24925, 24915, 24949, 24985, 24982, 24967, 25004, 24980, 24986, 24970, 24977, 25003,
          25006, 25036, 25034, 25033, 25079, 25032, 25027, 25030, 25018, 25035, 32633, 25037, 25062, 25059, 25078, 25082, 25076, 25087, 25085, 25084,
          25086, 25088, 25096, 25097, 25101, 25100, 25108, 25115 >>,
       << 25118, 25121, 25130, 25134, 25136, 25138, 25139, 25153, 25166, 25182, 25187, 25179, 25184, 25192, 25212, 25218, 25225, 25214, 25234, 25235,
          25238, 25300, 25219, 25236, 25303, 25297, 25275, 25295, 25343, 25286, 25812, 25288, 25308, 25292, 25290, 25282, 25287, 25243, 25289, 25356,
          25326, 25329, 25383, 25346, 25352, 25327, 25333, 25424, 25406, 25421, 25628, 25423, 25494, 25486, 25472, 25515, 25462, 25507, 25487, 25481,
          25503, 25525, 25451, 25449, 25534, 25577, 25536, 25542, 25571, 25545, 25554, 25590, 25540, 25622, 25652, 25606, 25619, 25638, 25654, 25885,
          25623, 25640, 25615, 25703, 25711, 25718, 25678, 25898, 25749, 25747, 25765, 25769, 25736, 25788, 25818, 25810, 25797, 25799, 25787, 25816,
          25794, 25841, 25831, 33289, 25824, 25825, 25260, 25827, 25839, 25900, 25846, 25844, 25842, 25850, 25856, 25853, 25880, 25884, 25861, 25892,
          25891, 25899, 25908, 25909, 25911, 25910, 25912, 30027, 25928, 25942, 25941, 25933, 25944, 25950, 25949, 25970, 25976, 25986, 25987, 35722,
          26011, 26015, 26027, 26039, 26051, 26054, 26049, 26052, 26060, 26066, 26075, 26073, 26080, 26081, 26097, 26482, 26122, 26115, 26107, 26483,
          26165, 26166, 26164, 26140, 26191, 26180, 26185, 26177, 26206, 26205, 26212, 26215, 26216, 26207, 26210, 26224, 26243, 26248, 26254, 26249,
          26244, 26264, 26269, 26305, 26297, 26313, 26302, 26300 >>,
       << 26308, 26296, 26326, 26330, 26336, 26175, 26342, 26345, 26352, 26357, 26359, 26383, 26390, 26398, 26406, 26407, 38712, 26414, 26431, 26422,
          26433, 26424, 26423, 26438, 26462, 26464, 26457, 26467, 26468, 26505, 26480, 26537, 26492, 26474, 26508, 26507, 26534, 26529, 26501, 26551,
          26607, 26548, 26604, 26547, 26601, 26552, 26596, 26590, 26589, 26594, 26606, 26553, 26574, 26566, 26599, 27292, 26654, 26694, 26665, 26688,
          26701, 26674, 26702, 26803, 26667, 26713, 26723, 26743, 26751, 26783, 26767, 26797, 26772, 26781, 26779, 26755, 27310, 26809, 26740, 26805,
          26784, 26810, 26895, 26765, 26750, 26881, 26826, 26888, 26840, 26914, 26918, 26849, 26892, 26829, 26836, 26855, 26837, 26934, 26898, 26884,
          26839, 26851, 26917, 26873, 26848, 26863, 26920, 26922, 26906, 26915, 26913, 26822, 27001, 26999, 26972, 27000, 26987, 26964, 27006, 26990,
          26937, 26996, 26941, 26969, 26928, 26977, 26974, 26973, 27009, 26986, 27058, 27054, 27088, 27071, 27073, 27091, 27070, 27086, 23528, 27082,
          27101, 27067, 27075, 27047, 27182, 27025, 27040, 27036, 27029, 27060, 27102, 27112, 27138, 27163, 27135, 27402, 27129, 27122, 27111, 27141,
          27057, 27166, 27117, 27156, 27115, 27146, 27154, 27329, 27171, 27155, 27204, 27148, 27250, 27190, 27256, 27207, 27234, 27225, 27238, 27208,
          27192, 27170, 27280, 27277, 27296, 27268, 27298, 27299 >>,
       << 27287, 34327, 27323, 27331, 27330, 27320, 27315, 27308, 27358, 27345, 27359, 27306, 27354, 27370, 27387, 27397, 34326, 27386, 27410, 27414,
          39729, 27423, 27448, 27447, 30428, 27449, 39150, 27463, 27459, 27465, 27472, 27481, 27476, 27483, 27487, 27489, 27512, 27513, 27519, 27520,
          27524, 27523, 27533, 27544, 27541, 27550, 27556, 27562, 27563, 27567, 27570, 27569, 27571, 27575, 27580, 27590, 27595, 27603, 27615, 27628,
          27627, 27635, 27631, 40638, 27656, 27667, 27668, 27675, 27684, 27683, 27742, 27733, 27746, 27754, 27778, 27789, 27802, 27777, 27803, 27774,
          27752, 27763, 27794, 27792, 27844, 27889, 27859, 27837, 27863, 27845, 27869, 27822, 27825, 27838, 27834, 27867, 27887, 27865, 27882, 27935,
          34893, 27958, 27947, 27965, 27960, 27929, 27957, 27955, 27922, 27916, 28003, 28051, 28004, 27994, 28025, 27993, 28046, 28053, 28644, 28037,
          28153, 28181, 28170, 28085, 28103, 28134, 28088, 28102, 28140, 28126, 28108, 28136, 28114, 28101, 28154, 28121, 28132, 28117, 28138, 28142,
          28205, 28270, 28206, 28185, 28274, 28255, 28222, 28195, 28267, 28203, 28278, 28237, 28191, 28227, 28218, 28238, 28196, 28415, 28189, 28216,
          28290, 28330, 28312, 28361, 28343, 28371, 28349, 28335, 28356, 28338, 28372, 28373, 28303, 28325, 28354, 28319, 28481, 28433, 28748, 28396,
          28408, 28414, 28479, 28402, 28465, 28399, 28466, 28364 >>,
       << 28478, 28435, 28407, 28550, 28538, 28536, 28545, 28544, 28527, 28507, 28659, 28525, 28546, 28540, 28504, 28558, 28561, 28610, 28518, 28595,
          28579, 28577, 28580, 28601, 28614, 28586, 28639, 28629, 28652, 28628, 28632, 28657, 28654, 28635, 28681, 28683, 28666, 28689, 28673, 28687,
          28670, 28699, 28698, 28532, 28701, 28696, 28703, 28720, 28734, 28722, 28753, 28771, 28825, 28818, 28847, 28913, 28844, 28856, 28851, 28846,
          28895, 28875, 28893, 28889, 28937, 28925, 28956, 28953, 29029, 29013, 29064, 29030, 29026, 29004, 29014, 29036, 29071, 29179, 29060, 29077,
          29096, 29100, 29143, 29113, 29118, 29138, 29129, 29140, 29134, 29152, 29164, 29159, 29173, 29180, 29177, 29183, 29197, 29200, 29211, 29224,
          29229, 29228, 29232, 29234, 29243, 29244, 29247, 29248, 29254, 29259, 29272, 29300, 29310, 29314, 29313, 29319, 29330, 29334, 29346, 29351,
          29369, 29362, 29379, 29382, 29380, 29390, 29394, 29410, 29408, 29409, 29433, 29431, 20495, 29463, 29450, 29468, 29462, 29469, 29492, 29487,
          29481, 29477, 29502, 29518, 29519, 40664, 29527, 29546, 29544, 29552, 29560, 29557, 29563, 29562, 29640, 29619, 29646, 29627, 29632, 29669,
          29678, 29662, 29858, 29701, 29807, 29733, 29688, 29746, 29754, 29781, 29759, 29791, 29785, 29761, 29788, 29801, 29808, 29795, 29802, 29814,
          29822, 29835, 29854, 29863, 29898, 29903, 29908, 29681 >>,
       << 29920, 29923, 29927, 29929, 29934, 29938, 29936, 29937, 29944, 29943, 29956, 29955, 29957, 29964, 29966, 29965, 29973, 29971, 29982, 29990,
          29996, 30012, 30020, 30029, 30026, 30025, 30043, 30022, 30042, 30057, 30052, 30055, 30059, 30061, 30072, 30070, 30086, 30087, 30068, 30090,
          30089, 30082, 30100, 30106, 30109, 30117, 30115, 30146, 30131, 30147, 30133, 30141, 30136, 30140, 30129, 30157, 30154, 30162, 30169, 30179,
          30174, 30206, 30207, 30204, 30209, 30192, 30202, 30194, 30195, 30219, 30221, 30217, 30239, 30247, 30240, 30241, 30242, 30244, 30260, 30256,
          30267, 30279, 30280, 30278, 30300, 30296, 30305, 30306, 30312, 30313, 30314, 30311, 30316, 30320, 30322, 30326, 30328, 30332, 30336, 30339,
          30344, 30347, 30350, 30358, 30355, 30361, 30362, 30384, 30388, 30392, 30393, 30394, 30402, 30413, 30422, 30418, 30430, 30433, 30437, 30439,
          30442, 34351, 30459, 30472, 30471, 30468, 30505, 30500, 30494, 30501, 30502, 30491, 30519, 30520, 30535, 30554, 30568, 30571, 30555, 30565,
          30591, 30590, 30585, 30606, 30603, 30609, 30624, 30622, 30640, 30646, 30649, 30655, 30652, 30653, 30651, 30663, 30669, 30679, 30682, 30684,
          30691, 30702, 30716, 30732, 30738, 31014, 30752, 31018, 30789, 30862, 30836, 30854, 30844, 30874, 30860, 30883, 30901, 30890, 30895, 30929,
          30918, 30923, 30932, 30910, 30908, 30917, 30922, 30956 >>,
       << 30951, 30938, 30973, 30964, 30983, 30994, 30993, 31001, 31020, 31019, 31040, 31072, 31063, 31071, 31066, 31061, 31059, 31098, 31103, 31114,
          31133, 31143, 40779, 31146, 31150, 31155, 31161, 31162, 31177, 31189, 31207, 31212, 31201, 31203, 31240, 31245, 31256, 31257, 31264, 31263,
          31104, 31281, 31291, 31294, 31287, 31299, 31319, 31305, 31329, 31330, 31337, 40861, 31344, 31353, 31357, 31368, 31383, 31381, 31384, 31382,
          31401, 31432, 31408, 31414, 31429, 31428, 31423, 36995, 31431, 31434, 31437, 31439, 31445, 31443, 31449, 31450, 31453, 31457, 31458, 31462,
          31469, 31472, 31490, 31503, 31498, 31494, 31539, 31512, 31513, 31518, 31541, 31528, 31542, 31568, 31610, 31492, 31565, 31499, 31564, 31557,
          31605, 31589, 31604, 31591, 31600, 31601, 31596, 31598, 31645, 31640, 31647, 31629, 31644, 31642, 31627, 31634, 31631, 31581, 31641, 31691,
          31681, 31692, 31695, 31668, 31686, 31709, 31721, 31761, 31764, 31718, 31717, 31840, 31744, 31751, 31763, 31731, 31735, 31767, 31757, 31734,
          31779, 31783, 31786, 31775, 31799, 31787, 31805, 31820, 31811, 31828, 31823, 31808, 31824, 31832, 31839, 31844, 31830, 31845, 31852, 31861,
          31875, 31888, 31908, 31917, 31906, 31915, 31905, 31912, 31923, 31922, 31921, 31918, 31929, 31933, 31936, 31941, 31938, 31960, 31954, 31964,
          31970, 39739, 31983, 31986, 31988, 31990, 31994, 32006 >>,
       << 32002, 32028, 32021, 32010, 32069, 32075, 32046, 32050, 32063, 32053, 32070, 32115, 32086, 32078, 32114, 32104, 32110, 32079, 32099, 32147,
          32137, 32091, 32143, 32125, 32155, 32186, 32174, 32163, 32181, 32199, 32189, 32171, 32317, 32162, 32175, 32220, 32184, 32159, 32176, 32216,
          32221, 32228, 32222, 32251, 32242, 32225, 32261, 32266, 32291, 32289, 32274, 32305, 32287, 32265, 32267, 32290, 32326, 32358, 32315, 32309,
          32313, 32323, 32311, 32306, 32314, 32359, 32349, 32342, 32350, 32345, 32346, 32377, 32362, 32361, 32380, 32379, 32387, 32213, 32381, 36782,
          32383, 32392, 32393, 32396, 32402, 32400, 32403, 32404, 32406, 32398, 32411, 32412, 32568, 32570, 32581, 32588, 32589, 32590, 32592, 32593,
          32597, 32596, 32600, 32607, 32608, 32616, 32617, 32615, 32632, 32642, 32646, 32643, 32648, 32647, 32652, 32660, 32670, 32669, 32666, 32675,
          32687, 32690, 32697, 32686, 32694, 32696, 35697, 32709, 32710, 32714, 32725, 32724, 32737, 32742, 32745, 32755, 32761, 39132, 32774, 32772,
          32779, 32786, 32792, 32793, 32796, 32801, 32808, 32831, 32827, 32842, 32838, 32850, 32856, 32858, 32863, 32866, 32872, 32883, 32882, 32880,
          32886, 32889, 32893, 32895, 32900, 32902, 32901, 32923, 32915, 32922, 32941, 20880, 32940, 32987, 32997, 32985, 32989, 32964, 32986, 32982,
          33033, 33007, 33009, 33051, 33065, 33059, 33071, 33099 >>,
       << 38539, 33094, 33086, 33107, 33105, 33020, 33137, 33134, 33125, 33126, 33140, 33155, 33160, 33162, 33152, 33154, 33184, 33173, 33188, 33187,
          33119, 33171, 33193, 33200, 33205, 33214, 33208, 33213, 33216, 33218, 33210, 33225, 33229, 33233, 33241, 33240, 33224, 33242, 33247, 33248,
          33255, 33274, 33275, 33278, 33281, 33282, 33285, 33287, 33290, 33293, 33296, 33302, 33321, 33323, 33336, 33331, 33344, 33369, 33368, 33373,
          33370, 33375, 33380, 33378, 33384, 33386, 33387, 33326, 33393, 33399, 33400, 33406, 33421, 33426, 33451, 33439, 33467, 33452, 33505, 33507,
          33503, 33490, 33524, 33523, 33530, 33683, 33539, 33531, 33529, 33502, 33542, 33500, 33545, 33497, 33589, 33588, 33558, 33586, 33585, 33600,
          33593, 33616, 33605, 33583, 33579, 33559, 33560, 33669, 33690, 33706, 33695, 33698, 33686, 33571, 33678, 33671, 33674, 33660, 33717, 33651,
          33653, 33696, 33673, 33704, 33780, 33811, 33771, 33742, 33789, 33795, 33752, 33803, 33729, 33783, 33799, 33760, 33778, 33805, 33826, 33824,
          33725, 33848, 34054, 33787, 33901, 33834, 33852, 34138, 33924, 33911, 33899, 33965, 33902, 33922, 33897, 33862, 33836, 33903, 33913, 33845,
          33994, 33890, 33977, 33983, 33951, 34009, 33997, 33979, 34010, 34000, 33985, 33990, 34006, 33953, 34081, 34047, 34036, 34071, 34072, 34092,
          34079, 34069, 34068, 34044, 34112, 34147, 34136, 34120 >>,
       << 34113, 34306, 34123, 34133, 34176, 34212, 34184, 34193, 34186, 34216, 34157, 34196, 34203, 34282, 34183, 34204, 34167, 34174, 34192, 34249,
          34234, 34255, 34233, 34256, 34261, 34269, 34277, 34268, 34297, 34314, 34323, 34315, 34302, 34298, 34310, 34338, 34330, 34352, 34367, 34381,
          20053, 34388, 34399, 34407, 34417, 34451, 34467, 34473, 34474, 34443, 34444, 34486, 34479, 34500, 34502, 34480, 34505, 34851, 34475, 34516,
          34526, 34537, 34540, 34527, 34523, 34543, 34578, 34566, 34568, 34560, 34563, 34555, 34577, 34569, 34573, 34553, 34570, 34612, 34623, 34615,
          34619, 34597, 34601, 34586, 34656, 34655, 34680, 34636, 34638, 34676, 34647, 34664, 34670, 34649, 34643, 34659, 34666, 34821, 34722, 34719,
          34690, 34735, 34763, 34749, 34752, 34768, 38614, 34731, 34756, 34739, 34759, 34758, 34747, 34799, 34802, 34784, 34831, 34829, 34814, 34806,
          34807, 34830, 34770, 34833, 34838, 34837, 34850, 34849, 34865, 34870, 34873, 34855, 34875, 34884, 34882, 34898, 34905, 34910, 34914, 34923,
          34945, 34942, 34974, 34933, 34941, 34997, 34930, 34946, 34967, 34962, 34990, 34969, 34978, 34957, 34980, 34992, 35007, 34993, 35011, 35012,
          35028, 35032, 35033, 35037, 35065, 35074, 35068, 35060, 35048, 35058, 35076, 35084, 35082, 35091, 35139, 35102, 35109, 35114, 35115, 35137,
          35140, 35131, 35126, 35128, 35148, 35101, 35168, 35166 >>,
       << 35174, 35172, 35181, 35178, 35183, 35188, 35191, 35198, 35203, 35208, 35210, 35219, 35224, 35233, 35241, 35238, 35244, 35247, 35250, 35258,
          35261, 35263, 35264, 35290, 35292, 35293, 35303, 35316, 35320, 35331, 35350, 35344, 35340, 35355, 35357, 35365, 35382, 35393, 35419, 35410,
          35398, 35400, 35452, 35437, 35436, 35426, 35461, 35458, 35460, 35496, 35489, 35473, 35493, 35494, 35482, 35491, 35524, 35533, 35522, 35546,
          35563, 35571, 35559, 35556, 35569, 35604, 35552, 35554, 35575, 35550, 35547, 35596, 35591, 35610, 35553, 35606, 35600, 35607, 35616, 35635,
          38827, 35622, 35627, 35646, 35624, 35649, 35660, 35663, 35662, 35657, 35670, 35675, 35674, 35691, 35679, 35692, 35695, 35700, 35709, 35712,
          35724, 35726, 35730, 35731, 35734, 35737, 35738, 35898, 35905, 35903, 35912, 35916, 35918, 35920, 35925, 35938, 35948, 35960, 35962, 35970,
          35977, 35973, 35978, 35981, 35982, 35988, 35964, 35992, 25117, 36013, 36010, 36029, 36018, 36019, 36014, 36022, 36040, 36033, 36068, 36067,
          36058, 36093, 36090, 36091, 36100, 36101, 36106, 36103, 36111, 36109, 36112, 40782, 36115, 36045, 36116, 36118, 36199, 36205, 36209, 36211,
          36225, 36249, 36290, 36286, 36282, 36303, 36314, 36310, 36300, 36315, 36299, 36330, 36331, 36319, 36323, 36348, 36360, 36361, 36351, 36381,
          36382, 36368, 36383, 36418, 36405, 36400, 36404, 36426 >>,
       << 36423, 36425, 36428, 36432, 36424, 36441, 36452, 36448, 36394, 36451, 36437, 36470, 36466, 36476, 36481, 36487, 36485, 36484, 36491, 36490,
          36499, 36497, 36500, 36505, 36522, 36513, 36524, 36528, 36550, 36529, 36542, 36549, 36552, 36555, 36571, 36579, 36604, 36603, 36587, 36606,
          36618, 36613, 36629, 36626, 36633, 36627, 36636, 36639, 36635, 36620, 36646, 36659, 36667, 36665, 36677, 36674, 36670, 36684, 36681, 36678,
          36686, 36695, 36700, 36706, 36707, 36708, 36764, 36767, 36771, 36781, 36783, 36791, 36826, 36837, 36834, 36842, 36847, 36999, 36852, 36869,
          36857, 36858, 36881, 36885, 36897, 36877, 36894, 36886, 36875, 36903, 36918, 36917, 36921, 36856, 36943, 36944, 36945, 36946, 36878, 36937,
          36926, 36950, 36952, 36958, 36968, 36975, 36982, 38568, 36978, 36994, 36989, 36993, 36992, 37002, 37001, 37007, 37032, 37039, 37041, 37045,
          37090, 37092, 25160, 37083, 37122, 37138, 37145, 37170, 37168, 37194, 37206, 37208, 37219, 37221, 37225, 37235, 37234, 37259, 37257, 37250,
          37282, 37291, 37295, 37290, 37301, 37300, 37306, 37312, 37313, 37321, 37323, 37328, 37334, 37343, 37345, 37339, 37372, 37365, 37366, 37406,
          37375, 37396, 37420, 37397, 37393, 37470, 37463, 37445, 37449, 37476, 37448, 37525, 37439, 37451, 37456, 37532, 37526, 37523, 37531, 37466,
          37583, 37561, 37559, 37609, 37647, 37626, 37700, 37678 >>,
       << 37657, 37666, 37658, 37667, 37690, 37685, 37691, 37724, 37728, 37756, 37742, 37718, 37808, 37804, 37805, 37780, 37817, 37846, 37847, 37864,
          37861, 37848, 37827, 37853, 37840, 37832, 37860, 37914, 37908, 37907, 37891, 37895, 37904, 37942, 37931, 37941, 37921, 37946, 37953, 37970,
          37956, 37979, 37984, 37986, 37982, 37994, 37417, 38000, 38005, 38007, 38013, 37978, 38012, 38014, 38017, 38015, 38274, 38279, 38282, 38292,
          38294, 38296, 38297, 38304, 38312, 38311, 38317, 38332, 38331, 38329, 38334, 38346, 28662, 38339, 38349, 38348, 38357, 38356, 38358, 38364,
          38369, 38373, 38370, 38433, 38440, 38446, 38447, 38466, 38476, 38479, 38475, 38519, 38492, 38494, 38493, 38495, 38502, 38514, 38508, 38541,
          38552, 38549, 38551, 38570, 38567, 38577, 38578, 38576, 38580, 38582, 38584, 38585, 38606, 38603, 38601, 38605, 35149, 38620, 38669, 38613,
          38649, 38660, 38662, 38664, 38675, 38670, 38673, 38671, 38678, 38681, 38692, 38698, 38704, 38713, 38717, 38718, 38724, 38726, 38728, 38722,
          38729, 38748, 38752, 38756, 38758, 38760, 21202, 38763, 38769, 38777, 38789, 38780, 38785, 38778, 38790, 38795, 38799, 38800, 38812, 38824,
          38822, 38819, 38835, 38836, 38851, 38854, 38856, 38859, 38876, 38893, 40783, 38898, 31455, 38902, 38901, 38927, 38924, 38968, 38948, 38945,
          38967, 38973, 38982, 38991, 38987, 39019, 39023, 39024 >>,
       << 39025, 39028, 39027, 39082, 39087, 39089, 39094, 39108, 39107, 39110, 39145, 39147, 39171, 39177, 39186, 39188, 39192, 39201, 39197, 39198,
          39204, 39200, 39212, 39214, 39229, 39230, 39234, 39241, 39237, 39248, 39243, 39249, 39250, 39244, 39253, 39319, 39320, 39333, 39341, 39342,
          39356, 39391, 39387, 39389, 39384, 39377, 39405, 39406, 39409, 39410, 39419, 39416, 39425, 39439, 39429, 39394, 39449, 39467, 39479, 39493,
          39490, 39488, 39491, 39486, 39509, 39501, 39515, 39511, 39519, 39522, 39525, 39524, 39529, 39531, 39530, 39597, 39600, 39612, 39616, 39631,
          39633, 39635, 39636, 39646, 39647, 39650, 39651, 39654, 39663, 39659, 39662, 39668, 39665, 39671, 39675, 39686, 39704, 39706, 39711, 39714,
          39715, 39717, 39719, 39720, 39721, 39722, 39726, 39727, 39730, 39748, 39747, 39759, 39757, 39758, 39761, 39768, 39796, 39827, 39811, 39825,
          39830, 39831, 39839, 39840, 39848, 39860, 39872, 39882, 39865, 39878, 39887, 39889, 39890, 39907, 39906, 39908, 39892, 39905, 39994, 39922,
          39921, 39920, 39957, 39956, 39945, 39955, 39948, 39942, 39944, 39954, 39946, 39940, 39982, 39963, 39973, 39972, 39969, 39984, 40007, 39986,
          40006, 39998, 40026, 40032, 40039, 40054, 40056, 40167, 40172, 40176, 40201, 40200, 40171, 40195, 40198, 40234, 40230, 40367, 40227, 40223,
          40260, 40213, 40210, 40257, 40255, 40254, 40262, 40264 >>,
       << 40285, 40286, 40292, 40273, 40272, 40281, 40306, 40329, 40327, 40363, 40303, 40314, 40346, 40356, 40361, 40370, 40388, 40385, 40379, 40376,
          40378, 40390, 40399, 40386, 40409, 40403, 40440, 40422, 40429, 40431, 40445, 40474, 40475, 40478, 40565, 40569, 40573, 40577, 40584, 40587,
          40588, 40594, 40597, 40593, 40605, 40613, 40617, 40632, 40618, 40621, 38753, 40652, 40654, 40655, 40656, 40660, 40668, 40670, 40669, 40672,
          40677, 40680, 40687, 40692, 40694, 40695, 40697, 40699, 40700, 40701, 40711, 40712, 30391, 40725, 40737, 40748, 40766, 40778, 40786, 40788,
          40803, 40799, 40800, 40801, 40806, 40807, 40812, 40810, 40823, 40818, 40822, 40853, 40860, 40864, 22575, 27079, 36953, 29796, 20956, 29081,
          22099, 24034, 24084, 24088, 24152, 24158, 24254, 63784, 24267, 24313, 24320, 24322, 24327, 24349, 24355, 24372, 24374, 24381, 24384, 24389,
          24404, 24408, 24420, 24423, 24445, 24457, 24476, 24487, 24495, 24501, 24503, 24521, 24542, 24545, 24553, 24589, 24596, 24600, 24627, 24629,
          24647, 64061, 24733, 24734, 24779, 24788, 24789, 24797, 24824, 24860, 24875, 24880, 24887, 64062, 24973, 64063, 25020, 25017, 64064, 25122,
          25150, 25155, 25174, 25178, 25199, 25221, 25284, 25302, 25340, 25354, 25368, 25401, 25411, 25445, 25468, 25573, 25581, 25589, 25616, 25620,
          25634, 25721, 25681, 25696, 25709, 25806, 25790, 25791 >>,
       << 25796, 25802, 25808, 25847, 25851, 25890, 25897, 64065, 25959, 26013, 64066, 26112, 26121, 26133, 26142, 26170, 26146, 26148, 26155, 26160,
          26161, 26163, 26363, 26184, 26188, 143812, 26201, 26202, 26209, 26213, 26227, 26231, 26232, 26253, 64067, 26272, 26290, 26299, 26310, 26312,
          15138, 26331, 26344, 26362, 26387, 63785, 26419, 26470, 26439, 26440, 26491, 26497, 26515, 26520, 26523, 26555, 26617, 26560, 26583, 26620,
          26625, 26706, 26653, 26668, 26673, 26715, 26738, 26741, 64068, 26787, 26789, 26802, 26824, 26832, 26856, 26861, 26864, 26865, 26876, 26890,
          26953, 144836, 26933, 26946, 26967, 26979, 26980, 26984, 27008, 64020, 27045, 27053, 27087, 15286, 15299, 27106, 27113, 27114, 27125, 27126,
          27151, 27157, 145215, 27195, 27198, 27205, 27216, 27222, 27227, 27243, 27251, 145251, 27273, 27284, 27293, 27294, 27301, 27364, 27367, 15375,
          63773, 27419, 27422, 27436, 27445, 27462, 27478, 27488, 27493, 27495, 27511, 27522, 27561, 27565, 63856, 27599, 27606, 27607, 27647, 27653,
          27664, 27699, 27737, 27740, 27818, 27764, 27766, 27781, 27782, 27800, 27804, 27899, 27846, 27860, 27872, 27883, 27886, 146686, 27908, 27918,
          27950, 27953, 27961, 27967, 27992, 28005, 64069, 28034, 28039, 28041, 28052, 28074, 28076, 28095, 28100, 28118, 28122, 28123, 28125, 28156,
          64070, 28212, 28228, 28252, 28254, 28331, 28337, 28353 >>,
       << 28359, 28366, 28432, 28442, 64071, 28458, 28463, 28467, 28497, 28505, 28510, 28513, 28514, 28542, 28552, 28556, 28557, 28564, 28576, 28583,
          28598, 28604, 28615, 28618, 28665, 28656, 28661, 28677, 28678, 28712, 28746, 28765, 28766, 28750, 28772, 28789, 28805, 28836, 28843, 28855,
          28884, 28888, 28900, 28943, 28971, 28958, 28960, 28974, 28976, 28998, 28999, 29009, 64072, 29010, 29020, 29024, 29032, 64021, 29061, 29063,
          29074, 29121, 29114, 29124, 29182, 29184, 29205, 29269, 29270, 15935, 29325, 29339, 29374, 29376, 29435, 149489, 29479, 29480, 64022, 29520,
          29542, 29564, 29589, 29599, 29600, 29602, 29606, 29611, 29641, 29647, 29654, 29657, 29667, 29673, 29703, 29706, 29722, 29723, 64074, 29734,
          29736, 29738, 29739, 29740, 29742, 29743, 29744, 29764, 29766, 29767, 29771, 29783, 29794, 29803, 29805, 29830, 29831, 29833, 29848, 29852,
          29855, 29859, 29840, 29862, 29864, 29865, 29877, 29887, 29896, 29897, 29914, 29951, 29953, 29975, 29999, 30063, 30073, 30098, 16242, 30158,
          30180, 30208, 30210, 30216, 30229, 30230, 30233, 30238, 30253, 30261, 30275, 30283, 30308, 30309, 30317, 30319, 30321, 30337, 30363, 30365,
          30366, 30374, 30378, 30390, 30405, 30412, 30414, 30420, 30438, 30449, 30460, 30474, 30489, 30516, 30518, 30534, 30541, 30542, 30556, 30559,
          30562, 30586, 30592, 30612, 30634, 30688, 30765, 152718 >>,
       << 30787, 30798, 30799, 30801, 30824, 30830, 64075, 30896, 152846, 30893, 30948, 30962, 30976, 30967, 31004, 31022, 31025, 31028, 64076, 64077,
          31045, 31046, 64078, 64079, 64080, 31068, 64081, 64025, 64026, 31097, 64082, 64083, 64027, 31128, 31153, 31160, 31176, 31178, 153457, 31188,
          31198, 31211, 31213, 31235, 64084, 31289, 31325, 31341, 64085, 31365, 31392, 154052, 31411, 31419, 31438, 31467, 31485, 31506, 31533, 31547,
          31559, 31566, 31584, 31597, 31599, 31602, 31646, 64086, 31703, 31705, 31745, 31793, 31774, 31776, 31795, 31798, 16996, 155041, 31833, 31853,
          31865, 31887, 31892, 31904, 31932, 31957, 31961, 31965, 32007, 32008, 32019, 32029, 32035, 32049, 32065, 32072, 32083, 32092, 32122, 32131,
          32139, 32160, 32166, 32194, 32204, 32214, 32227, 64087, 32296, 32264, 32273, 32277, 64089, 32327, 32338, 32353, 32394, 32397, 32583, 64090,
          32657, 32663, 32703, 32718, 32731, 32735, 32748, 32750, 32762, 64091, 32788, 32806, 32821, 32823, 32828, 32970, 32983, 32992, 33011, 33048,
          33098, 33120, 33127, 33128, 33133, 33211, 33226, 33231, 33239, 64092, 17491, 17499, 33376, 33396, 158463, 33422, 33441, 33443, 33444, 33449,
          33454, 33463, 33470, 33471, 33478, 33493, 33533, 33534, 33536, 33537, 33634, 33570, 33581, 33594, 33603, 33607, 33617, 33621, 33661, 33670,
          33682, 33688, 33703, 33705, 33727, 33728, 33735, 33743 >>,
       << 33745, 33761, 33770, 33793, 33798, 33802, 64095, 33864, 33887, 33904, 33907, 33925, 33950, 33967, 33972, 33978, 33984, 33986, 159296, 34098,
          34078, 34083, 34095, 34137, 34148, 64031, 34221, 34170, 34188, 34191, 34210, 34224, 34251, 34254, 34285, 34322, 34303, 34308, 34309, 34320,
          159988, 34328, 34345, 34360, 34391, 34395, 63798, 34402, 17821, 34412, 34421, 34456, 34488, 34554, 34556, 34557, 34571, 34673, 34695, 34696,
          34732, 34733, 34741, 17898, 34774, 34796, 34822, 34826, 34832, 34836, 34847, 34968, 34986, 35018, 35022, 161412, 35061, 35100, 64096, 35096,
          35097, 35098, 35111, 35120, 35122, 35129, 35136, 35220, 64097, 35284, 35301, 35318, 35346, 35349, 35362, 35383, 35399, 35406, 35421, 35425,
          35445, 35449, 35495, 35536, 35551, 35572, 35574, 64034, 64098, 64099, 35654, 35668, 35673, 35689, 35741, 35913, 35944, 64100, 36065, 36084,
          36088, 36094, 64101, 36114, 36123, 36271, 36302, 36305, 36311, 36384, 36387, 36413, 36464, 36475, 164471, 36544, 18500, 36602, 36638, 36653,
          36662, 36692, 164813, 36774, 36789, 36836, 36840, 36846, 36872, 36909, 64103, 37000, 37013, 37015, 37017, 37019, 37026, 37043, 37054, 37060,
          37061, 37063, 37079, 37085, 37086, 37103, 37108, 64038, 37140, 37141, 37142, 37154, 37155, 37159, 37167, 37169, 37172, 37181, 37192, 37211,
          37251, 37278, 37292, 37297, 37308, 37335, 37371, 37348 >>,
       << 37349, 37357, 37361, 37383, 37392, 37432, 37433, 37434, 37436, 37440, 37443, 37455, 37496, 37512, 37570, 37579, 37580, 37587, 37600, 37631,
          37636, 37663, 37665, 37669, 37704, 37705, 37706, 37732, 37733, 37738, 37744, 37787, 37795, 37818, 37830, 37854, 37855, 37892, 37885, 37939,
          37962, 37987, 37995, 38001, 38002, 38286, 38303, 38310, 38313, 38316, 38326, 38333, 38347, 38352, 38355, 18864, 38362, 38366, 38488, 38532,
          63964, 38557, 38564, 38565, 38610, 38622, 64104, 38633, 38639, 38707, 38715, 38733, 38734, 38735, 38746, 38766, 38771, 38805, 38830, 38842,
          38849, 38857, 38878, 38875, 38900, 64105, 38922, 38942, 38955, 38960, 64106, 38994, 38995, 38998, 38999, 39001, 39002, 63952, 39013, 39020,
          39098, 39112, 39143, 39256, 39326, 39426, 39427, 39460, 39469, 39470, 39480, 39498, 39502, 39506, 39606, 39617, 39619, 39630, 39638, 39673,
          39682, 39688, 39712, 19479, 39725, 39774, 39801, 39782, 39794, 39797, 39812, 39818, 39823, 39838, 39847, 39873, 39886, 39909, 39928, 39933,
          39936, 39971, 40001, 40015, 40016, 40019, 40035, 40037, 40055, 40221, 40222, 40259, 40263, 40274, 40291, 40304, 40316, 40330, 40342, 40384,
          40364, 40380, 40407, 172432, 40423, 40455, 40469, 40572, 40606, 40612, 40620, 40623, 40628, 40629, 40643, 40657, 40720, 40761, 40791, 40848,
          40852, 40855, 40866, 23032, 23643, 24183, 30246, 32363 >>,
       << 131209, 19970, 19983, 19986, 20009, 20011, 20014, 20032, 20039, 20040, 131234, 20049, 13318, 131236, 20058, 20073, 20125, 13356, 13358, 20153,
          20155, 131490, 20156, 20163, 20168, 20176, 20203, 20186, 20209, 20213, 20224, 20246, 20324, 20279, 20286, 20308, 20312, 131603, 20343, 20344,
          20346, 20349, 20354, 20357, 20370, 20378, 20454, 20402, 20414, 20421, 20427, 20431, 20434, 13418, 20466, 20480, 20496, 20499, 20508, 20510,
          20514, 13416, 20546, 20550, 20558, 20563, 20567, 20579, 20582, 20586, 20592, 20643, 20616, 20626, 20627, 20629, 20630, 20636, 20650, 131883,
          20657, 20666, 20667, 20676, 20679, 20723, 131969, 20686, 131953, 20692, 20697, 20705, 20713, 13458, 23446, 23468, 14177, 23488, 14178, 23502,
          23510, 14188, 14187, 23537, 23549, 14197, 23555, 23593, 23600, 138326, 23647, 23651, 23655, 23656, 23657, 23664, 138541, 138565, 23676, 138616,
          138594, 23688, 23690, 14273, 138657, 138652, 23712, 23714, 23718, 23719, 138642, 23725, 23733, 138679, 23753, 138720, 138803, 23814, 23824, 23851,
          23837, 23840, 23844, 23846, 23857, 23865, 23874, 14312, 23905, 23914, 14324, 23920, 139038, 14333, 23944, 14336, 23954, 23956, 23959, 23961,
          23984, 23986, 23988, 139126, 23993, 24017, 24023, 24024, 24032, 139258, 24036, 24041, 14383, 24064, 14390, 24082, 24085, 14400, 24095, 24110,
          24126, 24137, 14428, 24150, 14433, 24171, 24172, 24173 >>,
       << 20744, 132089, 20759, 20763, 132170, 20832, 132361, 20851, 20867, 20875, 13500, 20888, 20899, 20909, 13511, 20924, 132566, 132648, 20979, 20980,
          20994, 21010, 21014, 132943, 21077, 21084, 21100, 21111, 21124, 21122, 133127, 21144, 133178, 21156, 21158, 21167, 21178, 21179, 21194, 13599,
          21201, 133305, 21239, 21258, 21259, 21284, 21301, 21310, 21314, 133500, 133533, 21351, 21356, 21370, 21412, 21428, 133843, 21431, 21440, 133917,
          13661, 13662, 21461, 21466, 13667, 21492, 21493, 21589, 21540, 21544, 13678, 21571, 21602, 21606, 21612, 21642, 21645, 21653, 21664, 21670,
          21677, 21678, 21687, 21690, 21695, 21699, 134469, 21740, 21743, 21745, 21747, 21760, 21761, 21769, 21820, 21825, 13734, 21831, 21834, 13736,
          21856, 21857, 21860, 134625, 21885, 21890, 21896, 21905, 13765, 21970, 134805, 134765, 21951, 21961, 21964, 21969, 21981, 13786, 21986, 134756,
          21993, 22056, 135007, 22023, 22032, 22064, 22071, 13812, 22077, 22079, 22080, 22087, 22110, 22112, 22125, 13829, 22152, 22156, 22165, 22170,
          22173, 22184, 22189, 22194, 22213, 22221, 22239, 22248, 22262, 22263, 135681, 22293, 22307, 135765, 22313, 135803, 22341, 22342, 22348, 22349,
          135796, 22376, 22383, 22387, 22388, 22389, 22395, 135908, 135895, 22444, 22426, 22429, 22430, 22440, 22487, 135933, 22476, 135990, 136004, 22494,
          22502, 22512, 13898, 22520, 22523, 22525, 22532, 22558 >>,
       << 22560, 22567, 22578, 22585, 136132, 22601, 22604, 22631, 22666, 22667, 22669, 22671, 22672, 22676, 22685, 22698, 22705, 136301, 22723, 22733,
          22754, 22771, 22772, 22789, 22790, 22795, 22797, 22804, 22820, 136663, 13969, 22845, 13977, 22854, 13974, 158761, 22875, 22879, 136775, 22901,
          22902, 22908, 22943, 22958, 22972, 22984, 22989, 23006, 23011, 23012, 23015, 23022, 136966, 137026, 14031, 23052, 23053, 23063, 23079, 23085,
          23125, 23141, 23162, 23179, 23196, 23199, 23200, 23202, 23217, 23219, 23221, 23226, 23231, 23258, 23260, 23264, 23269, 23280, 23278, 23285,
          23296, 23304, 23319, 23348, 23341, 23372, 23378, 23400, 23407, 23420, 23423, 23425, 23428, 137667, 24174, 139643, 24229, 24234, 24236, 24249,
          24255, 24262, 24274, 24281, 140062, 24317, 24328, 24334, 24348, 140205, 24350, 24391, 24419, 24434, 24446, 24463, 24482, 24484, 24504, 24516,
          14586, 24519, 24523, 24530, 24531, 24532, 24546, 24558, 24559, 24563, 24572, 14615, 24599, 24610, 24612, 14618, 24652, 24703, 24714, 24725,
          24744, 141043, 24752, 24753, 24766, 24776, 24793, 24795, 24814, 24818, 24821, 24848, 24850, 24851, 24857, 24862, 24890, 14703, 24897, 24902,
          24928, 24956, 141403, 24978, 24979, 24983, 24984, 24997, 25000, 25005, 141483, 25045, 25053, 25055, 25077, 141711, 25109, 25123, 25129, 25158,
          25164, 25169, 25170, 25185, 25188, 25211, 25197, 25203 >>,
       << 25241, 25254, 25301, 142008, 25341, 25347, 25357, 25360, 142159, 142160, 25394, 25397, 25403, 25404, 25409, 25412, 25422, 142150, 25433, 142365,
          142246, 25452, 25476, 25497, 142372, 25492, 25533, 25591, 25556, 25557, 25564, 25568, 25579, 25580, 25586, 25609, 25630, 25637, 25641, 25647,
          25690, 25691, 25693, 25715, 25725, 25735, 25745, 25757, 25759, 25803, 25804, 25813, 25815, 142817, 25828, 25829, 25855, 25860, 14958, 25871,
          25876, 25878, 14963, 25886, 25906, 25924, 25940, 25963, 25978, 25985, 25988, 25989, 25994, 26034, 26037, 26040, 26047, 26050, 26057, 26068,
          15062, 26098, 26105, 26108, 26116, 26120, 26145, 26154, 26181, 26193, 26190, 15082, 143811, 26199, 26203, 26211, 143861, 143798, 26218, 26219,
          26220, 26221, 26235, 26240, 26256, 26258, 26265, 15118, 26285, 26289, 26293, 15130, 26303, 15132, 26348, 15063, 26369, 26373, 26386, 144242,
          26393, 144339, 144338, 26444, 26445, 26452, 26461, 144336, 144356, 144341, 26484, 26486, 144346, 26514, 144351, 33635, 26640, 26544, 26546, 26563,
          26568, 26578, 26585, 26587, 26608, 26615, 144458, 144465, 144459, 26648, 26655, 26669, 144485, 26675, 26683, 26686, 26692, 26693, 26697, 26700,
          26709, 26711, 15223, 26731, 26734, 26746, 26748, 26754, 26768, 26774, 15213, 26776, 26777, 26778, 26780, 26794, 26795, 26804, 26811, 26875,
          144612, 144730, 64019, 26819, 26821, 26828, 26831, 26838 >>,
       << 26841, 26852, 26853, 26860, 26871, 26883, 26887, 15239, 15240, 144788, 26939, 15245, 26950, 26985, 26988, 26994, 27002, 27007, 27026, 15268,
          27030, 27032, 27046, 27056, 27063, 27066, 27068, 27072, 27089, 27094, 144953, 144967, 27184, 144952, 144954, 27107, 27118, 27119, 27123, 15309,
          27124, 27134, 27153, 27162, 27165, 145180, 27186, 27187, 27188, 27199, 27206, 27209, 27258, 27214, 27218, 27236, 145164, 27262, 27267, 27275,
          15344, 27281, 27295, 27297, 145252, 27307, 27325, 27334, 27348, 27344, 27356, 27357, 145407, 145383, 27372, 27377, 27378, 27379, 27389, 145444,
          27403, 27407, 27408, 27409, 145469, 27415, 15398, 27439, 27466, 27480, 27500, 27509, 27514, 27521, 27547, 27566, 146072, 27581, 27582, 27591,
          27592, 27593, 27610, 27622, 27623, 27630, 27633, 27650, 27658, 27662, 27701, 27702, 27706, 146559, 27711, 27725, 27739, 27757, 27780, 27785,
          15555, 27796, 27797, 27799, 27821, 27842, 27856, 15570, 27862, 27866, 27868, 27881, 27884, 27885, 146688, 27904, 27914, 27940, 27942, 27943,
          27751, 27951, 27964, 27995, 27998, 28000, 28016, 28032, 28033, 28042, 28045, 28049, 28056, 146752, 28183, 146938, 146937, 146899, 28075, 28078,
          28084, 28098, 27956, 28104, 28110, 28111, 28112, 28127, 28137, 28150, 28214, 28190, 28194, 28199, 15633, 28210, 28220, 28232, 28233, 28235,
          28236, 28239, 28241, 28243, 28244, 28247, 28259, 15646 >>,
       << 28307, 28327, 28340, 28351, 28355, 28362, 28377, 28469, 28395, 28409, 28411, 28426, 28428, 28440, 28453, 28470, 28476, 147326, 28498, 28503,
          28506, 28512, 28520, 28568, 28541, 28560, 28566, 28606, 28575, 28581, 28591, 15716, 28597, 28616, 28617, 28634, 28638, 28649, 147606, 28668,
          28672, 28679, 28682, 28707, 147715, 28729, 28730, 28732, 28739, 28743, 28747, 15770, 28756, 28773, 28777, 28780, 28782, 28790, 28798, 28801,
          28806, 28821, 28823, 28859, 147910, 28831, 28849, 147966, 28908, 28874, 28881, 28883, 28892, 28931, 28932, 28934, 28935, 28936, 28940, 15808,
          28975, 28977, 29008, 29002, 29011, 29022, 15828, 29078, 29056, 29083, 29088, 29090, 29102, 29103, 29107, 148412, 29131, 29139, 29145, 29148,
          29191, 15877, 64073, 29227, 29236, 29240, 29241, 20012, 29250, 29267, 29271, 29283, 149033, 29294, 29295, 29304, 29311, 29326, 149157, 29357,
          29358, 29360, 29361, 29377, 15968, 29388, 15974, 15976, 29427, 29434, 29447, 29458, 29464, 29465, 16003, 29497, 29484, 29489, 29491, 29501,
          29522, 16020, 29547, 29548, 149654, 29550, 29551, 29553, 29559, 29569, 29573, 29578, 29588, 29592, 29596, 29598, 29605, 29608, 29621, 29623,
          29625, 29628, 29631, 29637, 29643, 29665, 29671, 29689, 29715, 29690, 29697, 29732, 29745, 29753, 29779, 29760, 29763, 29773, 29778, 29789,
          29809, 29825, 29829, 29832, 150093, 29842, 29847, 29849 >>,
       << 29856, 29857, 29861, 29866, 29867, 29881, 29883, 29882, 29910, 29912, 29918, 29935, 29931, 150358, 29946, 150383, 29984, 29988, 29994, 16215,
          150550, 30013, 30014, 30016, 30024, 30030, 30032, 30034, 30060, 30066, 30065, 30074, 30077, 30078, 30081, 150804, 30092, 16245, 30114, 16247,
          30128, 30135, 30143, 30144, 30150, 30159, 30163, 30173, 30175, 30176, 30183, 30188, 30190, 30193, 30201, 30211, 30232, 30215, 30223, 16302,
          151054, 30227, 30235, 30236, 151095, 30245, 30248, 30268, 30259, 151146, 16329, 30273, 151179, 30281, 30293, 16343, 30318, 30357, 30364, 30369,
          30368, 30375, 30376, 30383, 151626, 30409, 151637, 30440, 30444, 151842, 30487, 30490, 30509, 30517, 151977, 16441, 152037, 152013, 30552, 30560,
          30570, 152094, 30578, 30588, 30589, 152140, 16472, 30618, 30623, 30626, 30628, 30633, 30686, 30687, 30692, 30694, 30698, 30700, 16531, 30704,
          30708, 30715, 152622, 30725, 30726, 30729, 30733, 30745, 30753, 30764, 30791, 30820, 30826, 152793, 30858, 30868, 30884, 30877, 30878, 30879,
          30907, 30920, 30924, 30926, 30933, 30944, 30945, 30950, 30969, 30970, 30971, 30974, 152999, 30992, 31003, 31024, 31013, 31035, 31050, 31064,
          31067, 16645, 31079, 31090, 31124, 31125, 31126, 31131, 31137, 31145, 31156, 31163, 31170, 31175, 31180, 31181, 31190, 16712, 153513, 153524,
          16719, 31242, 31249, 31253, 31259, 31262, 16739, 31277 >>,
       << 31288, 31303, 31308, 31318, 31321, 31324, 31327, 31328, 31335, 31338, 31349, 31352, 31362, 31370, 31376, 31395, 31404, 154068, 16820, 31417,
          31420, 31422, 16831, 31436, 31441, 31463, 31464, 31476, 154340, 154339, 31495, 154353, 31549, 31527, 31530, 31534, 31535, 31537, 16870, 16883,
          31615, 31553, 16878, 31573, 31609, 31588, 31590, 31593, 31603, 154546, 16903, 31632, 31633, 31643, 16910, 31663, 31669, 31676, 31685, 31690,
          154699, 154724, 31700, 31702, 31706, 31722, 31728, 31747, 31755, 31758, 31759, 31782, 31813, 31818, 31825, 31831, 31838, 31841, 31849, 31854,
          31855, 31856, 155182, 155222, 155237, 31910, 155234, 31926, 31927, 31935, 155352, 31940, 155330, 31944, 31949, 155368, 31959, 155427, 31974, 31979,
          155484, 31989, 32003, 32009, 17094, 32018, 32030, 155616, 155604, 32061, 32062, 32064, 32071, 155660, 155643, 17110, 32089, 32090, 32106, 32112,
          17117, 32127, 155671, 32134, 32136, 32140, 32151, 155744, 32157, 32167, 32170, 32182, 32183, 32192, 32215, 32217, 32230, 32241, 32249, 17154,
          155885, 64088, 32272, 32279, 32285, 32288, 32295, 32300, 32325, 32371, 32373, 32382, 32390, 32391, 17195, 32401, 32408, 32410, 17219, 32572,
          32571, 32574, 32579, 32580, 32591, 13505, 156272, 32594, 156294, 32609, 32611, 32612, 32621, 32637, 32638, 156492, 32656, 20859, 146702, 32662,
          32668, 32685, 156674, 32707, 32719, 32739, 32741, 32751 >>,
       << 32754, 32770, 32778, 32776, 32782, 32785, 32790, 32804, 32812, 32816, 32835, 32870, 32881, 32885, 32891, 32921, 32924, 32932, 32935, 32952,
          157310, 32965, 32981, 32984, 32998, 157360, 33037, 33013, 33019, 17390, 33077, 33046, 33054, 17392, 33060, 33063, 33068, 157469, 33085, 17416,
          33129, 17431, 33153, 17436, 33156, 33157, 17442, 33176, 33202, 33217, 33219, 33238, 33243, 157917, 33252, 157930, 33260, 158033, 33277, 33279,
          158063, 33284, 158173, 33305, 33313, 33314, 158238, 33330, 33332, 33340, 33350, 33353, 33349, 158296, 33355, 17526, 33359, 17530, 33367, 158348,
          33372, 33379, 158391, 64093, 64094, 33401, 17553, 33405, 33407, 33411, 33418, 33427, 33447, 33448, 33458, 33460, 33466, 33468, 33506, 33512,
          33527, 33543, 33544, 33548, 33620, 33563, 33565, 33584, 33596, 33604, 33623, 17598, 33663, 17620, 17587, 33677, 33684, 33685, 33691, 33693,
          33737, 33744, 33748, 33757, 33765, 33785, 33807, 33809, 33813, 158835, 33815, 33849, 33866, 33871, 33873, 33874, 33881, 33882, 33884, 158941,
          33893, 33910, 33912, 33916, 33921, 17677, 34012, 33943, 33958, 33982, 17672, 33998, 33999, 34003, 159333, 34023, 34026, 34031, 34032, 34033,
          34042, 34045, 34060, 34075, 34084, 34085, 34091, 34100, 34127, 34159, 17701, 17731, 34110, 34129, 34131, 34142, 34145, 34146, 159636, 34171,
          34173, 34175, 34177, 34182, 34195, 34205, 34207, 159736 >>,
       << 159734, 159735, 34231, 34236, 34247, 34250, 34264, 34265, 34271, 34273, 34278, 34294, 34304, 34321, 34334, 34337, 34340, 34343, 160013, 34361,
          34364, 160057, 34368, 64032, 34387, 34390, 34415, 34423, 34426, 34439, 34441, 34445, 34449, 34460, 34461, 34472, 64033, 34481, 34483, 34497,
          34499, 34513, 34517, 34519, 34531, 34534, 17848, 34565, 34567, 34574, 34576, 34579, 34585, 34591, 34593, 34595, 34609, 34618, 34622, 34624,
          34627, 34641, 34648, 34660, 34661, 34674, 34684, 160731, 160730, 34727, 34697, 34699, 34707, 34720, 160766, 17893, 34750, 160784, 34753, 34766,
          34805, 34783, 160841, 34787, 34789, 34790, 34794, 34795, 34797, 34817, 34819, 34827, 34835, 34856, 34862, 34866, 34876, 17935, 34890, 34904,
          34911, 34916, 161301, 161300, 34921, 161329, 34927, 34976, 35004, 35005, 35006, 35008, 35026, 161427, 35025, 35027, 35035, 35056, 35057, 17985,
          35073, 161550, 35127, 161571, 35138, 35141, 35145, 161618, 18021, 35170, 35200, 35209, 35216, 35231, 35248, 35255, 35286, 35288, 35307, 18081,
          35313, 35315, 35325, 35327, 18095, 35345, 35348, 162181, 35361, 35381, 35390, 35397, 35405, 35416, 35502, 35472, 35511, 35518, 35543, 35580,
          162436, 35594, 35589, 35597, 35612, 35615, 35629, 35651, 18188, 35665, 35678, 35702, 35711, 35713, 35723, 35732, 35733, 35740, 35742, 35897,
          162739, 35901, 162750, 162759, 35909, 35911, 35919, 35924 >>,
       << 35927, 35945, 35949, 35955, 163000, 35987, 35986, 35993, 18276, 35995, 36004, 36054, 36053, 36057, 163232, 36080, 36081, 163344, 36105, 36110,
          36204, 36228, 36245, 36262, 163767, 36294, 36296, 36313, 36332, 36364, 18429, 36349, 36358, 163978, 36372, 36374, 36385, 36386, 36391, 164027,
          18454, 36406, 36409, 36427, 36436, 36450, 36460, 36461, 36463, 36504, 36510, 36526, 36531, 36533, 36534, 36539, 164482, 36561, 36564, 18510,
          36601, 164595, 36608, 36616, 36631, 36651, 36672, 36682, 36696, 164876, 36772, 36788, 64102, 36790, 164949, 36801, 36806, 64036, 36810, 36813,
          36819, 36821, 36832, 36849, 36853, 36859, 36866, 36876, 36919, 165227, 36931, 36932, 36957, 165320, 165321, 36997, 37004, 37008, 38429, 37025,
          18613, 37040, 37046, 37059, 37064, 165591, 37084, 37087, 165626, 37110, 37106, 37120, 37099, 37118, 37119, 37124, 37126, 37144, 37148, 37150,
          37175, 37177, 37178, 37190, 37191, 37207, 37209, 37217, 37220, 37236, 37241, 37253, 37262, 37288, 37294, 37299, 37302, 37315, 37316, 37338,
          166217, 166214, 37356, 37358, 37377, 37386, 37398, 37399, 166251, 37427, 37442, 37447, 37450, 37454, 37457, 37462, 37465, 37472, 37473, 37477,
          37479, 37480, 166279, 166280, 37500, 37501, 37503, 37513, 37517, 37527, 37529, 37535, 37543, 37547, 166330, 166331, 37554, 37567, 37568, 37574,
          37582, 37584, 37591, 37593, 37605, 37607, 37649, 166430 >>,
       << 166441, 37623, 37625, 37627, 37634, 37645, 37653, 37661, 37662, 37671, 37673, 166513, 166467, 37703, 37713, 37719, 37722, 37739, 37745, 37747,
          37793, 166553, 166605, 37768, 37771, 37775, 37790, 37877, 166628, 166621, 37873, 37825, 37831, 37852, 37858, 37863, 37897, 37903, 37910, 37911,
          37883, 37938, 37940, 37947, 37957, 166849, 166895, 37997, 37999, 38264, 38265, 38278, 38284, 38285, 167184, 38315, 38324, 167281, 38344, 167419,
          167455, 38444, 38451, 38452, 167478, 38460, 38465, 38497, 167561, 38530, 167659, 38554, 167730, 18919, 38569, 38575, 38579, 38586, 38589, 18938,
          167928, 38616, 38618, 38621, 18948, 38676, 38691, 18985, 38710, 38721, 38727, 38741, 38743, 38747, 38762, 168608, 168625, 38806, 38810, 38814,
          38818, 38833, 38834, 38846, 38860, 38865, 38868, 38872, 38873, 38881, 38897, 38916, 38925, 38926, 38932, 38934, 19132, 169104, 38947, 38962,
          38963, 38949, 38983, 39014, 39083, 39085, 39088, 169423, 39095, 39096, 39099, 39100, 39103, 39106, 39111, 39115, 39136, 169599, 39137, 39139,
          39141, 39146, 39152, 39153, 39155, 39176, 19259, 169712, 39190, 39191, 169753, 39194, 39195, 39196, 169808, 39217, 39218, 39219, 39226, 39227,
          39228, 39232, 39233, 39238, 39245, 39246, 39260, 39263, 39264, 39331, 39334, 39353, 39357, 39359, 39363, 39369, 39380, 39385, 39390, 170182,
          39408, 39417, 39420, 39434, 39441, 39446, 39450, 39456 >>,
       << 39473, 39478, 39492, 39500, 39512, 19394, 39599, 19402, 39607, 19410, 39609, 170610, 39622, 39632, 39634, 39637, 19432, 39644, 39648, 39653,
          39657, 39683, 39692, 39696, 39698, 39702, 39708, 39723, 39731, 39741, 19488, 39755, 39779, 39781, 39787, 39788, 39795, 39798, 39799, 39846,
          39852, 39857, 171483, 171581, 39858, 39864, 39870, 39879, 39923, 39896, 39901, 39911, 39914, 39915, 39919, 39918, 171541, 39930, 171658, 39927,
          171593, 39958, 39960, 39961, 39962, 39965, 39970, 39975, 39977, 39978, 171716, 39985, 39990, 39991, 40005, 40028, 171753, 40009, 40010, 171739,
          40020, 40024, 40027, 40029, 40031, 40041, 40042, 40043, 40045, 40046, 40048, 40050, 40053, 40058, 40166, 40178, 40203, 40194, 171982, 40209,
          40215, 40216, 172079, 19652, 172058, 40242, 19665, 40258, 40266, 40287, 40290, 172281, 40297, 40299, 172162, 40307, 40310, 40311, 40318, 40324,
          40333, 40345, 40353, 40383, 40373, 40377, 40381, 40387, 40391, 40393, 40406, 40410, 40415, 40416, 40419, 40436, 19719, 40458, 40450, 40461,
          40473, 40476, 40477, 40571, 139800, 40576, 40581, 40603, 40616, 172940, 40637, 173111, 40671, 40679, 40686, 40703, 40706, 19831, 40707, 40727,
          40729, 40751, 40759, 40762, 40765, 40769, 40773, 40774, 40787, 40789, 40792, 173553, 40797, 173570, 40809, 173594, 40813, 40816, 40821, 173746,
          0, 0, 0, 0, 0, 0, 0, 0 >> >>

\* The cells of JISX0213_DECODE that hold a code point, numbered row after
\* row from 1 (188 to a row), in the order of their code points.
JISX0213_ORDER ==
    << 32, 112, 754, 755, 81, 82, 756, 757, 88, 15, 758, 759, 760, 138, 761, 762, 763, 75, 62, 764,
       765, 13, 183, 766, 767, 768, 769, 770, 771, 772, 773, 774, 775, 776, 777, 778, 779, 780, 781, 782,
       783, 784, 785, 786, 787, 788, 789, 790, 791, 792, 793, 794, 795, 796, 797, 63, 798, 799, 800, 801,
       802, 803, 804, 805, 806, 807, 808, 809, 810, 811, 812, 813, 814, 815, 816, 817, 818, 819, 820, 821,
       822, 823, 824, 825, 826, 827, 828, 64, 829, 830, 831, 832, 833, 834, 835, 836, 837, 842, 872, 887,
       847, 858, 874, 889, 903, 909, 875, 890, 878, 893, 894, 840, 845, 876, 891, 877, 892, 904, 910, 905,
       911, 939, 838, 843, 906, 912, 873, 888, 850, 861, 849, 860, 879, 895, 880, 896, 936, 841, 846, 881,
       897, 951, 950, 871, 886, 882, 898, 851, 862, 907, 913, 853, 865, 852, 864, 885, 901, 854, 866, 839,
       844, 908, 914, 883, 899, 884, 900, 855, 867, 857, 870, 856, 869, 949, 944, 737, 738, 739, 744, 745,
       746, 747, 748, 749, 750, 742, 743, 977, 959, 965, 966, 945, 964, 971, 924, 946, 954, 956, 975, 957,
       958, 931, 948, 935, 962, 968, 942, 974, 952, 920, 930, 921, 960, 937, 915, 932, 925, 955, 922, 973,
       929, 926, 917, 938, 927, 918, 947, 923, 953, 961, 916, 963, 967, 934, 928, 972, 919, 941, 940, 943,
       933, 970, 969, 863, 991, 992, 993, 994, 848, 902, 859, 868, 1021, 1004, 1005, 1006, 1007, 1008, 1000, 998,
       1003, 1033, 999, 995, 1017, 997, 1002, 1001, 1028, 1029, 1034, 1014, 1026, 1027, 1015, 1016, 1022, 1011, 1019, 1030,
       1012, 1020, 1023, 1025, 1013, 1031, 1032, 1024, 1018, 990, 471, 472, 473, 474, 475, 476, 477, 478, 479, 480,
       481, 482, 483, 484, 485, 486, 487, 488, 489, 490, 491, 492, 493, 494, 503, 504, 505, 506, 507, 508,
       509, 510, 511, 512, 513, 514, 515, 516, 517, 518, 519, 527, 520, 521, 522, 523, 524, 525, 526, 571,
       565, 566, 567, 568, 569, 570, 572, 573, 574, 575, 576, 577, 578, 579, 580, 581, 582, 583, 584, 585,
       586, 587, 588, 589, 590, 591, 592, 593, 594, 595, 596, 597, 613, 614, 615, 616, 617, 618, 620, 621,
       622, 623, 624, 625, 626, 627, 628, 629, 630, 631, 632, 633, 634, 635, 636, 637, 638, 639, 640, 641,
       642, 643, 644, 645, 619, 740, 741, 978, 979, 988, 989, 30, 280, 29, 34, 38, 39, 40, 41, 181,
       182, 220, 37, 36, 177, 76, 77, 102, 733, 996, 1128, 734, 735, 736, 1127, 753, 78, 249, 251, 1194,
       1196, 252, 176, 248, 652, 653, 654, 1149, 1150, 1151, 1152, 1153, 1154, 1155, 1156, 1157, 1158, 1159, 1183, 1055,
       1056, 1057, 1058, 1059, 1060, 1061, 1062, 1063, 1064, 1065, 1066, 105, 106, 104, 107, 175, 195, 193, 194, 196,
       197, 139, 140, 199, 200, 198, 201, 141, 157, 142, 133, 158, 120, 132, 121, 61, 247, 163, 165, 71,
       1216, 154, 146, 147, 136, 137, 127, 126, 167, 168, 1211, 72, 166, 164, 170, 171, 172, 160, 66, 159,
       169, 69, 70, 161, 162, 173, 174, 124, 125, 128, 129, 122, 123, 130, 131, 143, 144, 145, 155, 1217,
       650, 651, 134, 135, 156, 656, 598, 599, 600, 601, 602, 603, 604, 605, 606, 607, 608, 609, 610, 611,
       612, 658, 657, 1129, 1130, 1131, 1132, 1133, 1134, 1135, 1136, 1137, 1138, 1139, 1140, 1141, 1142, 1143, 1144, 1145,
       1146, 1147, 1148, 1067, 1068, 1069, 1070, 1071, 1072, 1073, 1074, 1075, 1076, 1077, 1078, 1079, 1080, 1081, 1082, 1083,
       1084, 1085, 1086, 1087, 1088, 1089, 1090, 1091, 1092, 1045, 1046, 1047, 1048, 1049, 1050, 1051, 1052, 1053, 1054, 528,
       529, 530, 531, 532, 533, 534, 535, 536, 537, 659, 670, 660, 671, 661, 672, 662, 673, 664, 675, 663,
       674, 665, 686, 681, 676, 667, 688, 683, 678, 666, 682, 687, 677, 668, 684, 689, 679, 669, 685, 690,
       680, 97, 96, 547, 99, 98, 190, 189, 101, 100, 192, 191, 95, 94, 215, 91, 93, 92, 729, 730,
       731, 732, 219, 188, 542, 543, 544, 545, 90, 89, 541, 538, 539, 1222, 74, 73, 496, 499, 497, 502,
       495, 500, 498, 501, 546, 187, 180, 185, 186, 179, 184, 178, 655, 1221, 1035, 1036, 1037, 1038, 1039, 1040,
       1041, 1042, 1043, 1044, 202, 203, 148, 149, 214, 281, 282, 1, 2, 3, 23, 25, 26, 27, 50, 51,
       52, 53, 54, 55, 56, 57, 58, 59, 103, 108, 44, 45, 152, 153, 150, 151, 33, 1192, 1193, 540,
       113, 114, 115, 116, 117, 216, 283, 284, 285, 286, 287, 288, 289, 290, 291, 292, 293, 294, 295, 296,
       297, 298, 299, 300, 301, 302, 303, 304, 305, 306, 307, 308, 309, 310, 311, 312, 313, 314, 315, 316,
       317, 318, 319, 320, 321, 322, 323, 324, 325, 326, 327, 328, 329, 330, 331, 332, 333, 334, 335, 336,
       337, 338, 339, 340, 341, 342, 343, 344, 345, 346, 347, 348, 349, 350, 351, 352, 353, 354, 355, 356,
       357, 358, 359, 360, 361, 362, 363, 364, 365, 366, 367, 368, 11, 12, 21, 22, 119, 279, 377, 378,
       379, 380, 381, 382, 383, 384, 385, 386, 387, 388, 389, 390, 391, 392, 393, 394, 395, 396, 397, 398,
       399, 400, 401, 402, 403, 404, 405, 406, 407, 408, 409, 410, 411, 412, 413, 414, 415, 416, 417, 418,
       419, 420, 421, 422, 423, 424, 425, 426, 427, 428, 429, 430, 431, 432, 433, 434, 435, 436, 437, 438,
       439, 440, 441, 442, 443, 444, 445, 446, 447, 448, 449, 450, 451, 452, 453, 454, 455, 456, 457, 458,
       459, 460, 461, 462, 646, 647, 648, 649, 6, 28, 19, 20, 118, 548, 549, 550, 551, 552, 553, 554,
       555, 556, 557, 559, 560, 561, 562, 563, 564, 1202, 1203, 1204, 691, 692, 693, 694, 695, 696, 697, 698,
       699, 700, 701, 702, 703, 704, 705, 1197, 1198, 1199, 1200, 1201, 706, 707, 708, 709, 710, 711, 712, 713,
       714, 715, 716, 717, 718, 719, 720, 1093, 1094, 1095, 1096, 1097, 1098, 1099, 1100, 1101, 1102, 1103, 1104, 1105,
       1106, 1107, 1108, 1109, 1110, 1111, 1112, 1115, 1114, 1117, 1116, 1113, 1166, 1170, 1161, 1164, 1162, 1172, 1171, 1165,
       1173, 1167, 1175, 1160, 1174, 1163, 1168, 1169, 1191, 1207, 1206, 1205, 1179, 1180, 1176, 1177, 1178, 1182, 1181, 250,
       1195, 1225, 8849, 8854, 8855, 8898, 8890, 8930, 1273, 9035, 10318, 9039, 1281, 9064, 9085, 9086, 9089, 9095, 9121, 9124,
       9133, 9142, 9152, 9160, 9207, 9243, 9247, 9245, 9267, 8933, 8935, 8939, 8938, 8942, 4387, 8960, 4403, 8984, 8987, 8990,
       8992, 9009, 9011, 9014, 9019, 9021, 9333, 9344, 9348, 9370, 9459, 9463, 9481, 9516, 9492, 9508, 9512, 9514, 7937, 9571,
       9563, 9596, 9597, 9600, 9608, 7990, 7991, 9628, 9649, 8016, 9675, 9709, 9716, 9763, 9776, 9808, 9828, 9856, 9863, 9878,
       8154, 9901, 9903, 9904, 9911, 9918, 9984, 8223, 10002, 10004, 10024, 10035, 10040, 10060, 10071, 10083, 10126, 10142, 10145, 10151,
       10171, 10175, 10191, 10195, 10192, 10203, 10207, 8349, 10257, 10268, 10273, 10292, 10307, 10311, 10370, 10374, 10380, 10382, 10384, 10387,
       8423, 8424, 10416, 10418, 10427, 10455, 10452, 10454, 10491, 10486, 10511, 10512, 8509, 10575, 10604, 8524, 10626, 10648, 10657, 10668,
       10673, 10697, 10725, 10747, 10757, 8597, 10776, 10817, 8704, 10978, 10984, 10989, 10992, 11021, 11051, 11098, 11100, 11102, 11109, 8772,
       11123, 11196, 11199, 11229, 11250, 1486, 3286, 8838, 2561, 4040, 2796, 2460, 2795, 1626, 3812, 4167, 8839, 4420, 1519, 8840,
       1770, 4421, 2918, 4640, 1934, 3880, 2797, 4260, 3888, 1226, 8841, 4422, 8842, 9884, 3266, 8843, 1227, 1228, 4423, 2064,
       4424, 1847, 3212, 2609, 4425, 4426, 8844, 4427, 3593, 1935, 8845, 8846, 3595, 3545, 2197, 3967, 8848, 6809, 4428, 2798,
       4429, 1619, 8851, 2043, 2242, 4115, 4988, 8852, 4216, 3571, 1791, 1901, 4430, 4431, 4257, 4165, 3080, 4433, 2530, 3561,
       1229, 4436, 1534, 2225, 2224, 1480, 4367, 4366, 2369, 1411, 8853, 4437, 4438, 4439, 3968, 4440, 2244, 1481, 4030, 1972,
       1973, 1974, 3356, 4258, 4441, 4442, 4443, 8856, 2865, 8857, 8859, 2658, 2866, 4448, 8860, 4446, 4447, 1936, 8861, 2353,
       1678, 4445, 4444, 3863, 8862, 2482, 2481, 3132, 4449, 3813, 2985, 8864, 24, 4450, 4452, 1230, 3171, 4295, 1452, 8863,
       4451, 1628, 2010, 8865, 3267, 8866, 2147, 4453, 3576, 1231, 1232, 8867, 1861, 1233, 4454, 1453, 1234, 2226, 1862, 3850,
       3684, 1937, 8868, 1679, 4489, 3417, 3648, 4456, 3694, 4296, 8870, 2833, 2483, 2531, 1630, 8871, 3339, 3198, 4460, 1236,
       1237, 1454, 3357, 2659, 2370, 4140, 3148, 8872, 1629, 1238, 4459, 8873, 4166, 4455, 4457, 2428, 4458, 4892, 1239, 1235,
       8869, 4466, 1240, 1241, 4469, 4467, 1632, 3881, 4461, 8875, 8876, 8877, 4465, 2245, 8878, 1242, 2484, 8879, 1792, 8880,
       4470, 4462, 1243, 4297, 2532, 4463, 4468, 8881, 1244, 4471, 1245, 4464, 8882, 1975, 1455, 1976, 1631, 4893, 4037, 3838,
       2246, 8884, 2835, 4253, 8885, 3910, 2092, 3107, 1666, 8886, 1247, 2683, 8887, 4475, 8888, 4480, 4478, 8889, 4473, 3117,
       4476, 4479, 4477, 3915, 4474, 1248, 2834, 4031, 4481, 4482, 8883, 2636, 4495, 1223, 8891, 3620, 3782, 4490, 3934, 1620,
       4494, 8892, 1249, 1250, 4488, 4497, 3058, 2198, 3632, 1251, 5961, 8893, 4496, 3445, 8894, 4485, 2248, 1252, 2247, 4483,
       8895, 8896, 2596, 4491, 8897, 3933, 3241, 4487, 2149, 1253, 4484, 4492, 4486, 4279, 4493, 4357, 1254, 2044, 2148, 1256,
       1255, 1257, 8899, 4498, 8900, 4499, 4503, 1456, 8901, 3902, 4502, 8902, 4501, 4505, 8903, 4504, 3358, 8904, 2150, 8905,
       8906, 4506, 8907, 2575, 3108, 3359, 2060, 4507, 1902, 4508, 4510, 8909, 3969, 2138, 8910, 8911, 1258, 8912, 8913, 2461,
       3753, 4509, 8914, 8908, 8915, 2387, 4171, 8917, 4512, 4515, 4511, 2386, 2725, 8918, 8919, 2093, 4516, 8920, 2021, 8921,
       4513, 4514, 1259, 3493, 8924, 3100, 1261, 1977, 8926, 3993, 4517, 8927, 4259, 4518, 8928, 4521, 4519, 1262, 3054, 8929,
       4520, 4522, 1260, 8922, 4524, 4523, 3894, 1903, 4526, 4527, 1265, 1613, 1264, 9025, 4525, 1266, 2622, 4530, 4529, 4528,
       9027, 4472, 4531, 9028, 1267, 2726, 4532, 4141, 4099, 1268, 4534, 4533, 4536, 4535, 4537, 4538, 1494, 2183, 2095, 2660,
       3287, 1978, 2986, 2249, 1269, 2334, 4540, 4082, 3422, 2533, 4539, 4541, 1271, 1272, 3446, 1777, 9030, 4542, 3572, 3028,
       4544, 4545, 3678, 2250, 4351, 4546, 1980, 9032, 3882, 3124, 2055, 3405, 10330, 2151, 4547, 4548, 9033, 3544, 1567, 4551,
       2443, 9034, 4550, 2388, 4552, 6564, 4553, 3981, 4554, 4555, 4556, 2799, 9036, 2582, 1274, 1793, 4559, 9037, 4557, 4071,
       4558, 3818, 4560, 4561, 4562, 3447, 9038, 4566, 4564, 4565, 4563, 2417, 4567, 4116, 4298, 9040, 4568, 1275, 2922, 4569,
       2690, 4570, 1276, 3288, 4261, 3448, 4643, 4571, 7807, 2011, 1277, 4572, 4010, 1278, 2704, 3194, 4574, 3546, 4575, 1279,
       4576, 1706, 9043, 9044, 4577, 1981, 3522, 1594, 2680, 3667, 4578, 3449, 1280, 9045, 2867, 4579, 3866, 2972, 1788, 1795,
       4580, 4582, 2094, 9046, 1282, 4581, 1283, 9047, 4313, 2705, 3695, 3898, 4583, 4224, 4584, 4585, 3478, 4586, 2923, 2444,
       2152, 4587, 2485, 2335, 3360, 4589, 3109, 1284, 2429, 4590, 4591, 3024, 4588, 4593, 9049, 3970, 1285, 2324, 9050, 1410,
       4592, 1286, 2153, 2412, 3649, 4596, 4594, 9051, 3851, 2800, 4603, 1760, 4597, 4595, 3055, 9052, 4599, 4598, 9054, 1728,
       9053, 2132, 4604, 4243, 4600, 4605, 4602, 1287, 4601, 9056, 4277, 2251, 1633, 4314, 9058, 9059, 2717, 3440, 2325, 4608,
       4609, 9060, 4299, 4335, 4611, 2252, 9061, 9062, 4610, 1707, 4612, 4002, 3318, 4142, 1288, 3911, 9063, 1290, 4613, 1291,
       9065, 7479, 3494, 1292, 4614, 1796, 4061, 1293, 2727, 4615, 3925, 4619, 2924, 4616, 2022, 4617, 1797, 1295, 2082, 4620,
       4621, 9067, 4622, 4623, 2597, 1296, 2253, 4104, 1297, 4114, 3565, 3935, 4624, 1298, 4625, 9068, 9069, 4627, 4629, 4628,
       4630, 1627, 3992, 2442, 4631, 1299, 3065, 2728, 1983, 4632, 9070, 3725, 4633, 4634, 4635, 9071, 4636, 3764, 2046, 1479,
       9072, 3509, 4637, 2661, 9073, 2987, 4639, 4638, 2729, 2227, 4641, 3696, 4642, 3726, 3122, 3180, 1982, 3556, 3213, 3650,
       3994, 4644, 2988, 1301, 1302, 2089, 9076, 4645, 9077, 4646, 1516, 1495, 1863, 3110, 1929, 4217, 4649, 1621, 9078, 4648,
       1303, 1984, 4650, 4123, 1304, 4651, 4280, 2254, 1305, 2184, 4652, 9079, 4654, 4653, 2883, 1529, 1566, 4655, 4656, 1306,
       2185, 9080, 4657, 9082, 1958, 9083, 2462, 4658, 4032, 2371, 1938, 4143, 3056, 3697, 2631, 2671, 9087, 2610, 2623, 2718,
       9088, 3698, 4661, 1539, 3057, 2255, 2199, 2045, 4665, 3197, 3196, 1985, 2730, 4666, 4664, 1634, 3172, 2562, 2487, 1510,
       9090, 9091, 1772, 2326, 2486, 4667, 4668, 1921, 1730, 2327, 1920, 3353, 1509, 3495, 4072, 2257, 4225, 3423, 2256, 1307,
       2083, 4677, 4418, 2041, 3990, 9093, 3727, 1308, 9094, 4676, 1848, 4671, 4672, 4674, 4675, 1939, 2885, 3867, 4673, 4669,
       2229, 4670, 4328, 9096, 3936, 3362, 2228, 2336, 1309, 4678, 3539, 9092, 4682, 9097, 9098, 2632, 2624, 1311, 9099, 4685,
       4683, 4045, 1312, 4680, 4689, 4684, 4687, 2200, 4073, 1313, 4688, 4690, 4692, 1314, 9100, 2430, 4358, 9101, 4681, 4679,
       4691, 4686, 9102, 1315, 1310, 9103, 1316, 4694, 4703, 4696, 9104, 4700, 1317, 4701, 4697, 9105, 9106, 4730, 2423, 1709,
       9107, 4695, 9108, 4705, 1496, 4704, 9109, 1415, 3802, 4702, 9110, 4698, 1318, 4693, 4699, 2390, 4706, 1497, 4715, 4707,
       4708, 2731, 4021, 9112, 4713, 4712, 9113, 9114, 3399, 9115, 4714, 4711, 1319, 9116, 9117, 1524, 2372, 2836, 9118, 1320,
       4709, 3450, 4710, 1412, 1321, 4720, 4139, 2733, 4726, 1322, 4725, 4716, 9119, 3137, 4717, 9120, 3181, 4722, 2732, 9122,
       9123, 4719, 4110, 1323, 2096, 4723, 4724, 4721, 4727, 1324, 9125, 9126, 4718, 9127, 4733, 4738, 9129, 4734, 4729, 1325,
       9130, 4739, 3025, 1326, 4741, 9131, 2258, 4731, 3289, 1327, 9132, 4735, 4728, 1799, 1864, 1761, 4736, 4732, 2154, 4742,
       4740, 3059, 1922, 1986, 1329, 4737, 2058, 1540, 9137, 4746, 4744, 4801, 9138, 9139, 1330, 9140, 9134, 4749, 4743, 4747,
       9141, 4745, 9143, 2488, 4748, 9145, 4751, 4756, 4754, 4753, 3214, 9148, 1332, 1635, 1333, 9149, 4750, 4752, 2734, 1523,
       4755, 9146, 1660, 4766, 9150, 2818, 4762, 4760, 4761, 9151, 4763, 1334, 9153, 9154, 9155, 1533, 9156, 1335, 3033, 4757,
       4758, 7809, 1782, 9157, 9158, 4765, 1337, 1865, 4768, 4764, 4767, 9159, 1339, 1340, 1341, 3868, 1336, 3531, 3690, 4770,
       4769, 1729, 9161, 4771, 9162, 4774, 4773, 9163, 1342, 9164, 9165, 1343, 4772, 3597, 4775, 9166, 1344, 1345, 9167, 4776,
       9168, 1346, 4778, 4777, 4780, 4783, 4781, 4779, 4782, 9169, 4784, 1347, 1348, 9170, 4785, 4786, 4787, 4788, 4549, 2630,
       2489, 1681, 9171, 1498, 3232, 9172, 4789, 2354, 1457, 2882, 9173, 9174, 4790, 2201, 2337, 4792, 4791, 3918, 4793, 4795,
       4794, 1349, 4796, 4797, 2155, 1568, 4798, 9176, 4800, 4799, 4802, 3442, 1351, 9177, 4803, 1431, 2413, 9179, 2097, 1352,
       3243, 1353, 1354, 4804, 4805, 4807, 4808, 2418, 9181, 9182, 2023, 3971, 9183, 9184, 4806, 4809, 2383, 2259, 4813, 2355,
       3215, 9186, 4810, 3348, 9187, 1355, 9188, 9189, 9190, 1356, 9191, 1357, 4814, 2886, 4812, 4815, 2099, 4816, 9195, 1358,
       9196, 9197, 4817, 2260, 1724, 4819, 9198, 4820, 9194, 4821, 4818, 1361, 4811, 4822, 4823, 1362, 1363, 4016, 9201, 2801,
       1364, 4825, 4826, 4824, 4828, 9199, 3596, 9204, 1482, 3814, 4829, 1365, 9205, 1366, 9206, 2819, 1367, 1368, 2563, 9208,
       3633, 1866, 9209, 2425, 9210, 1369, 4005, 3496, 9211, 2156, 3149, 1370, 4827, 4830, 3138, 4831, 4832, 9212, 9213, 4834,
       3363, 9214, 1800, 7803, 1569, 3937, 9215, 2802, 3424, 9216, 2420, 4840, 3883, 4291, 9218, 1682, 4836, 9219, 3034, 4839,
       3451, 3425, 3452, 3691, 3335, 2391, 1372, 4835, 1373, 9220, 1590, 3406, 4837, 4833, 2868, 4841, 1375, 2678, 1987, 4842,
       1376, 9221, 9222, 9223, 9224, 9225, 3926, 9226, 3101, 3328, 9227, 1377, 4844, 3995, 1379, 9228, 4845, 4850, 9229, 3869,
       4849, 4843, 4846, 4848, 2356, 3895, 9231, 4851, 3233, 1683, 2803, 9232, 1382, 4853, 1381, 4852, 1383, 2328, 4854, 4856,
       4855, 1384, 4858, 4847, 4860, 1385, 9233, 4859, 4857, 1386, 2490, 2869, 3060, 4861, 2942, 1487, 3640, 9234, 9235, 3349,
       4863, 4862, 4864, 4865, 4866, 4867, 9236, 9237, 3903, 4868, 9238, 1387, 9239, 1636, 4869, 9240, 4164, 1708, 4647, 2672,
       3133, 4870, 4117, 4062, 9241, 4872, 3173, 3407, 3134, 3815, 4873, 4874, 1595, 2564, 4875, 1458, 4876, 9244, 4877, 1570,
       9246, 1867, 3542, 3938, 4881, 3061, 4880, 2100, 4007, 4879, 3453, 4883, 4882, 9249, 1389, 9250, 4885, 4884, 1596, 4886,
       2735, 4888, 3201, 4887, 1390, 3873, 2719, 3443, 9252, 9253, 4889, 9254, 2261, 4890, 3573, 3728, 4091, 3577, 1391, 4899,
       1392, 1904, 4173, 4057, 4994, 4891, 9255, 4894, 1393, 3139, 3972, 3426, 9256, 4895, 4017, 2392, 9257, 2736, 1394, 4896,
       9258, 2492, 2491, 9259, 1435, 2202, 1395, 2925, 1459, 4900, 4901, 4898, 1396, 9260, 9261, 9262, 1528, 1801, 9263, 4897,
       4079, 3777, 9264, 1418, 8832, 1499, 2493, 1460, 1413, 4906, 9268, 9269, 4904, 1397, 9270, 4070, 4907, 4905, 4903, 2837,
       1398, 4902, 9271, 3912, 9272, 2230, 4911, 4912, 2737, 4908, 4336, 3616, 4910, 9273, 2357, 4913, 9274, 3816, 1399, 4914,
       4909, 1400, 1401, 9275, 1402, 4069, 1403, 9276, 3634, 4915, 3778, 9277, 1404, 9278, 9279, 9280, 1405, 9281, 9282, 9283,
       9284, 4916, 4920, 4917, 9285, 1637, 4919, 1406, 2565, 4918, 2157, 4932, 4925, 4922, 9286, 9287, 9288, 3264, 4921, 9289,
       4923, 4924, 9291, 9290, 9292, 4926, 4927, 9293, 9294, 1868, 4929, 4928, 4930, 9295, 1408, 2804, 1409, 4933, 3350, 9297,
       1541, 4931, 9296, 4934, 4935, 4938, 4377, 4936, 4937, 9298, 2494, 4939, 9299, 2262, 4940, 4378, 2534, 3126, 4941, 4942,
       2502, 2263, 4092, 1888, 2203, 4943, 1748, 9300, 4944, 3127, 9301, 4945, 4985, 4946, 4947, 4948, 4950, 9302, 4379, 9303,
       4951, 9304, 4952, 9305, 3182, 1511, 2611, 1444, 3063, 1802, 2559, 2264, 4380, 3454, 8931, 2633, 1803, 3268, 3364, 1434,
       1905, 3939, 2572, 1930, 2989, 2566, 4144, 4953, 8932, 1940, 2393, 1710, 1571, 2738, 1638, 4954, 4174, 2673, 8934, 2606,
       4955, 1869, 3528, 4051, 4956, 4957, 3817, 8936, 4959, 1794, 2061, 4958, 8937, 4381, 1804, 2838, 4963, 2445, 1639, 4962,
       4960, 4964, 4961, 3583, 5591, 2839, 4965, 4382, 4262, 4966, 8940, 4968, 3290, 4967, 2917, 2535, 8941, 3150, 2625, 3845,
       2990, 8943, 2583, 4969, 2739, 4970, 4971, 1461, 3128, 2870, 4972, 3497, 2740, 2741, 4383, 4973, 2991, 2742, 4384, 4974,
       4975, 4385, 4106, 4976, 8944, 4386, 2012, 8945, 2634, 4977, 4978, 2598, 2832, 3562, 2872, 3754, 3574, 2015, 4979, 1959,
       4980, 2068, 3525, 1614, 2495, 4981, 4984, 4983, 2067, 4982, 3408, 8833, 3118, 8947, 3427, 2578, 4388, 8948, 3064, 4226,
       8949, 8950, 8951, 4986, 4987, 3532, 8952, 2463, 4989, 4990, 4392, 8955, 8958, 8959, 4991, 4393, 1870, 4992, 4993, 4394,
       8963, 1610, 8964, 4395, 8965, 8966, 3035, 1854, 4396, 4995, 4050, 8968, 3152, 1749, 8969, 4997, 4999, 1849, 4397, 4996,
       4998, 5001, 5000, 5002, 8971, 4398, 4399, 4400, 5003, 3507, 1988, 1667, 5004, 5009, 5007, 3941, 3940, 4401, 3455, 5006,
       2684, 5005, 8974, 2902, 5010, 4404, 2424, 8975, 5016, 5017, 5011, 1711, 5012, 5021, 5020, 5019, 5015, 8977, 5014, 8978,
       5018, 8979, 8980, 4405, 3942, 8976, 8981, 8982, 8983, 4407, 4408, 4410, 5025, 5022, 5024, 4218, 5023, 4409, 5013, 8985,
       2903, 8986, 5026, 4411, 2373, 8988, 5027, 5028, 4412, 5031, 5030, 5029, 8991, 3456, 5008, 5037, 8993, 8994, 8995, 8996,
       5033, 4413, 5032, 4414, 4415, 5034, 5035, 8997, 8998, 8999, 5038, 4416, 9001, 4300, 5039, 5036, 5040, 4417, 1850, 5041,
       9002, 5043, 5042, 5044, 9003, 9004, 5045, 2992, 2635, 9005, 2700, 7810, 3075, 9007, 2265, 2374, 2266, 1960, 9008, 5046,
       2375, 2204, 5047, 4048, 3607, 5048, 2267, 1798, 3203, 2024, 9010, 2496, 3819, 3699, 5049, 1871, 5052, 9012, 7811, 9013,
       3291, 7812, 5051, 5050, 5053, 3365, 9015, 2887, 2497, 2956, 9016, 3153, 1882, 3292, 5054, 5055, 2805, 3973, 9017, 5058,
       5057, 5056, 3853, 5065, 9018, 4006, 5059, 5061, 4023, 9020, 5060, 7813, 7814, 5062, 3674, 5063, 3884, 5064, 9022, 9023,
       9024, 9307, 1805, 3885, 3587, 5066, 5067, 8834, 2268, 1806, 5068, 2186, 4172, 4145, 1872, 5070, 3293, 2269, 2743, 3729,
       2744, 2720, 3366, 3943, 3409, 2270, 3820, 5071, 9309, 3441, 2384, 9310, 2205, 9311, 3367, 1445, 2710, 2271, 4175, 9312,
       7815, 9313, 5072, 5073, 3621, 9314, 5074, 4317, 4337, 7817, 5076, 5075, 9315, 1731, 5077, 9316, 5080, 5081, 5079, 3792,
       2745, 5083, 5082, 5078, 5084, 5085, 5086, 5089, 5087, 5088, 5090, 1572, 3368, 5091, 7818, 2158, 1684, 3594, 9318, 5092,
       3569, 7819, 3913, 7820, 5093, 4338, 7821, 9319, 5094, 3886, 5097, 4419, 4435, 9320, 2554, 3563, 5098, 1941, 3294, 1500,
       5099, 3860, 2272, 3244, 9321, 7822, 9323, 3369, 7823, 4121, 2187, 2206, 5100, 5101, 5107, 2607, 7824, 3295, 7825, 1989,
       5102, 3771, 7826, 3234, 7827, 5103, 7828, 9324, 5104, 1990, 5105, 5106, 5108, 3470, 7829, 5109, 5110, 7830, 5111, 5096,
       5095, 5112, 2101, 9325, 7831, 3767, 7832, 2394, 3783, 3296, 3803, 5113, 2746, 1542, 9326, 5114, 5115, 4124, 3730, 7833,
       9327, 5118, 1597, 2926, 5117, 5116, 2102, 3154, 5122, 5120, 7834, 5119, 4237, 2231, 9328, 2721, 5121, 3428, 2662, 3510,
       5125, 5124, 7835, 5123, 5126, 2232, 9329, 9330, 7836, 5127, 3852, 2691, 5128, 3755, 7837, 3511, 3297, 7838, 7839, 9331,
       3400, 5129, 1891, 2840, 9332, 3772, 9334, 7840, 9335, 1873, 3578, 9336, 9337, 9338, 5130, 2498, 3974, 3975, 1598, 5135,
       7841, 3269, 7842, 9339, 5132, 7843, 1685, 9340, 9341, 5183, 5134, 9342, 3588, 5133, 5131, 9343, 2346, 5137, 7844, 5143,
       5149, 5141, 3444, 7845, 5146, 3821, 9345, 7846, 5140, 5145, 4301, 2499, 3155, 5138, 9346, 9347, 1942, 5148, 2927, 1573,
       5142, 1686, 5147, 1991, 5144, 7847, 7848, 5150, 5152, 5162, 5160, 5157, 7849, 5156, 4318, 9349, 5158, 1992, 2273, 2722,
       5165, 5151, 5155, 5139, 1688, 5159, 5161, 3245, 2358, 1622, 5153, 5164, 5163, 1993, 3111, 1762, 2103, 5154, 9350, 5166,
       5169, 5171, 2567, 9351, 5177, 3370, 5167, 5175, 1687, 9352, 5173, 5174, 5170, 5172, 7851, 7852, 2233, 4146, 1807, 1561,
       5176, 9353, 3598, 1423, 9355, 9356, 3731, 5136, 5182, 5186, 4111, 5179, 3457, 5184, 9357, 2806, 5185, 3533, 9358, 7853,
       4363, 5181, 7854, 7855, 5187, 9359, 2347, 9360, 2957, 7856, 1462, 5180, 5178, 3066, 5168, 2464, 9361, 3140, 5199, 9362,
       3067, 5194, 9363, 5191, 5192, 7857, 2608, 5195, 5198, 5193, 2637, 5196, 5190, 4134, 4133, 5200, 5201, 1463, 9364, 9365,
       9366, 5189, 9367, 2056, 1416, 7858, 9368, 1808, 5197, 5205, 5204, 7859, 5209, 7860, 5210, 7861, 9369, 5208, 5211, 5203,
       5207, 9371, 5212, 5213, 9372, 5202, 2536, 5206, 3156, 2274, 5188, 2841, 5226, 3927, 5216, 5217, 5218, 5225, 5224, 9373,
       4041, 1809, 5222, 2105, 1712, 5219, 4254, 5221, 1464, 5223, 5214, 5220, 5227, 2104, 5215, 9374, 4197, 4147, 5230, 5234,
       7863, 3102, 4319, 5235, 9376, 9377, 5232, 5229, 9378, 9379, 5228, 5233, 3870, 9380, 3498, 9381, 2106, 5236, 5231, 9382,
       5237, 2159, 1615, 7866, 5245, 7865, 1810, 5243, 5244, 2359, 5242, 5240, 5239, 5246, 5238, 5248, 1689, 9384, 9385, 9386,
       5250, 5249, 3298, 5253, 9387, 5251, 5241, 2160, 5252, 5256, 5255, 5257, 5254, 5258, 5259, 5260, 3928, 5262, 5261, 2663,
       2928, 1668, 1690, 5263, 9389, 1441, 2958, 5264, 7085, 5265, 2133, 5266, 7868, 9390, 2993, 9391, 5267, 5268, 1906, 5269,
       5270, 5271, 3157, 2207, 4107, 7869, 3976, 2706, 5272, 7870, 9392, 2994, 7267, 3732, 2612, 9393, 2395, 5273, 9394, 9395,
       3141, 3861, 7871, 3183, 7872, 5276, 5274, 5277, 9396, 5275, 9397, 5278, 9399, 3871, 7873, 1433, 9400, 3822, 3733, 9398,
       5279, 5282, 2747, 1907, 5280, 5287, 2748, 7874, 5281, 3608, 4198, 5283, 5284, 5288, 3458, 5285, 2275, 2976, 9401, 5302,
       3686, 3184, 9402, 3734, 5371, 3944, 3371, 4033, 5291, 1599, 3270, 5300, 7875, 3216, 5294, 5301, 5296, 5303, 5299, 5298,
       3651, 5292, 1691, 5290, 1961, 3185, 5286, 9403, 7876, 5289, 2276, 2973, 2749, 5297, 3622, 1962, 1732, 1763, 2821, 5305,
       5310, 5306, 2161, 5311, 2446, 2329, 7877, 9405, 2638, 5293, 2537, 5308, 9406, 2500, 5309, 1446, 7878, 5304, 9407, 9408,
       3299, 7879, 1963, 1994, 5307, 1417, 2385, 2842, 9411, 9412, 7880, 3372, 9413, 9414, 3718, 5313, 3070, 9415, 7881, 9416,
       3112, 2455, 5314, 9417, 5316, 5312, 3919, 3319, 9419, 3068, 7882, 3945, 2584, 5328, 5327, 9422, 2908, 2162, 5321, 2751,
       3550, 3589, 7883, 5319, 3069, 9423, 2626, 5324, 2750, 5318, 5323, 3623, 9426, 5317, 2069, 9424, 1753, 5325, 4241, 2396,
       3217, 5322, 2974, 2277, 2888, 1574, 3036, 5320, 1917, 2107, 3337, 5326, 3071, 9427, 5329, 5331, 3125, 5337, 5332, 5334,
       3793, 3373, 5335, 9429, 9430, 4148, 4176, 1811, 9431, 9432, 1424, 5333, 7884, 5330, 9433, 9434, 7885, 1874, 9435, 1575,
       7886, 5336, 9428, 4177, 5340, 9436, 3129, 5347, 7887, 5341, 7888, 5338, 5345, 5315, 9437, 7889, 9438, 5342, 5346, 9439,
       3700, 3459, 9440, 5339, 5343, 2108, 2431, 2975, 5351, 7891, 3390, 9441, 9442, 9443, 7892, 5348, 4012, 7893, 5349, 9444,
       5350, 4088, 7890, 2916, 9445, 2134, 9446, 5357, 9447, 2465, 5354, 5353, 3590, 9448, 3499, 9449, 3401, 5355, 5356, 3839,
       3609, 2447, 2995, 3996, 1733, 5363, 5358, 7895, 7896, 4178, 5365, 7897, 5361, 5362, 7898, 9450, 9451, 3072, 7894, 7899,
       5360, 5295, 9452, 9453, 5364, 5359, 5369, 5370, 3391, 5372, 9455, 9456, 2448, 5367, 1908, 5373, 5366, 5377, 5376, 5375,
       7900, 5378, 7901, 5380, 2807, 9457, 5379, 9458, 5383, 9460, 9461, 9462, 5381, 5382, 5344, 9464, 7902, 5385, 5384, 7903,
       5352, 5386, 5374, 2501, 9465, 5387, 5388, 5390, 5389, 5391, 1692, 2278, 3946, 2929, 9466, 2208, 5393, 5396, 3810, 1943,
       9467, 5395, 5394, 3624, 5397, 1995, 5399, 5398, 1812, 2466, 3534, 7905, 9468, 2109, 2904, 5400, 2930, 3392, 3823, 5401,
       9469, 9470, 5402, 5403, 9471, 9472, 3878, 4949, 2952, 9473, 3804, 2406, 3735, 3701, 3429, 4263, 5405, 2586, 7906, 5406,
       1432, 2026, 2959, 3824, 5407, 2478, 3235, 2503, 2843, 9474, 9475, 5408, 9476, 3947, 1591, 2504, 9477, 5411, 9478, 5409,
       5412, 4255, 5410, 9479, 3005, 5413, 3120, 5414, 9480, 1876, 5416, 5415, 5417, 5418, 1877, 3570, 3218, 1956, 2505, 3073,
       2692, 1426, 5419, 9482, 9483, 1600, 5423, 9484, 7908, 2279, 5422, 9485, 2361, 2752, 9486, 7909, 5421, 2753, 4074, 2360,
       1465, 2960, 7910, 5428, 7911, 2931, 1543, 9487, 7913, 7914, 2685, 4018, 2432, 9488, 7915, 2754, 2921, 7916, 7917, 7918,
       5427, 5425, 5426, 7912, 3271, 5458, 5432, 2538, 2280, 5430, 9489, 7920, 5431, 2844, 7921, 9491, 5429, 9490, 2459, 9494,
       7923, 7924, 9495, 5434, 5433, 5438, 7925, 5439, 9496, 5435, 7926, 1694, 5436, 5437, 3719, 9499, 9500, 9501, 9502, 3825,
       2110, 5440, 7927, 2932, 2755, 7928, 7929, 3246, 9503, 9504, 2013, 5441, 5445, 1641, 5442, 5444, 7930, 5443, 9505, 2707,
       9506, 3236, 1447, 5446, 9507, 5447, 7932, 3300, 4311, 2479, 9509, 3929, 9510, 7933, 3977, 9511, 5454, 5449, 7934, 5452,
       5451, 9513, 5448, 5453, 7935, 3540, 7936, 5450, 5455, 2708, 5456, 7938, 4179, 3660, 5457, 5459, 7939, 5460, 9515, 5461,
       2016, 1544, 2281, 5462, 5463, 2713, 3074, 7940, 7919, 4662, 3038, 3037, 3158, 2389, 9517, 4500, 9518, 2146, 4149, 3948,
       3854, 5464, 9519, 7941, 2433, 3321, 5465, 4339, 9521, 3978, 3301, 5466, 1878, 5467, 5468, 4100, 4046, 4034, 4008, 2449,
       5470, 2613, 7943, 3997, 5472, 5475, 5474, 1875, 1944, 5471, 5473, 5476, 7945, 7946, 2909, 9524, 9525, 4227, 1451, 2414,
       3130, 2599, 9526, 2809, 5479, 3430, 9527, 5477, 3113, 5478, 2808, 4103, 5480, 5481, 4208, 7944, 5486, 2282, 3625, 5483,
       3460, 5420, 5424, 9531, 1927, 9532, 3611, 7947, 5485, 2756, 3702, 7948, 5491, 3756, 5482, 5488, 5487, 2961, 9534, 7949,
       4025, 4281, 7950, 4019, 7951, 1642, 2506, 4364, 5490, 2905, 5489, 5484, 2209, 9538, 9539, 5496, 5494, 1643, 5492, 5498,
       5504, 7952, 7954, 3142, 9540, 3887, 5506, 9541, 3762, 5505, 3652, 3979, 1813, 9542, 3001, 2664, 7955, 3341, 9543, 4150,
       9544, 5501, 5500, 5502, 5499, 5507, 5497, 5495, 5503, 5493, 9545, 3272, 4130, 2576, 2434, 9546, 7953, 2376, 7956, 4027,
       1725, 7957, 3336, 3520, 1545, 9537, 2996, 2934, 2078, 9550, 7959, 5509, 9551, 2283, 1784, 5511, 1776, 5517, 7960, 9552,
       7961, 5514, 9554, 2997, 1735, 2362, 9555, 1734, 2397, 9556, 5512, 2137, 2111, 3461, 9557, 9558, 5510, 1448, 9559, 9560,
       5513, 5515, 2019, 2080, 7958, 1814, 1923, 9561, 9562, 5518, 7962, 2439, 4029, 2467, 5519, 3776, 9564, 9565, 7963, 5531,
       7964, 1617, 5520, 9566, 9567, 5537, 5521, 4264, 9568, 5528, 3635, 5536, 5523, 9569, 1430, 5525, 9570, 2284, 9572, 9573,
       9574, 5527, 9575, 5526, 5522, 5533, 2757, 7966, 7967, 4871, 2234, 4228, 9576, 9577, 5524, 3374, 1695, 2363, 7968, 5516,
       9578, 5532, 1757, 5530, 5534, 9579, 3462, 9584, 1880, 9585, 5564, 7969, 4083, 5539, 1879, 9586, 5546, 9587, 7970, 3980,
       5547, 5549, 9588, 5553, 5541, 9589, 3206, 3463, 5557, 5544, 5554, 9590, 9591, 5548, 7971, 9592, 7972, 2845, 5558, 7973,
       7974, 2933, 9593, 5556, 1815, 9580, 7975, 4372, 5538, 9594, 5552, 1466, 9595, 5540, 7976, 4068, 5545, 2822, 3329, 5535,
       5551, 2910, 5561, 1773, 2163, 5563, 5542, 5562, 5555, 5543, 5559, 5560, 5577, 3524, 7979, 5550, 5573, 9599, 5575, 3346,
       7980, 9601, 7977, 4180, 3846, 5570, 3144, 7981, 5576, 3039, 5567, 5580, 5579, 3557, 5578, 3552, 7982, 7983, 7984, 9602,
       5582, 5569, 9603, 2014, 5572, 2693, 9604, 3636, 5574, 2017, 5566, 5568, 5565, 9605, 4340, 1750, 5571, 9606, 7985, 5581,
       1713, 2421, 1565, 5598, 9607, 4341, 5601, 9609, 9610, 2846, 5600, 5599, 7987, 9611, 5596, 7988, 5584, 9612, 5613, 5583,
       5602, 9613, 9614, 5594, 9615, 5589, 5586, 9616, 5587, 5595, 7804, 5592, 2285, 3330, 3076, 5590, 7989, 5585, 9617, 5588,
       9618, 4181, 4022, 5593, 5603, 7992, 9624, 5611, 5604, 7993, 7994, 5617, 5615, 9625, 9626, 5610, 9627, 9629, 7995, 7996,
       5609, 3338, 3077, 9630, 5607, 5605, 5612, 5618, 3751, 5624, 7997, 9631, 5619, 5622, 5616, 7998, 3280, 3784, 9632, 5606,
       9633, 5614, 2758, 4089, 5634, 5621, 2164, 1601, 1755, 5597, 9621, 9635, 9636, 9637, 2759, 5626, 5633, 2627, 1774, 8000,
       3210, 8001, 9638, 5623, 8002, 9639, 5628, 5632, 9640, 1996, 9642, 8003, 9643, 8004, 1924, 5630, 8005, 1881, 3521, 5629,
       9644, 5631, 8006, 5625, 8007, 5627, 9641, 9646, 1756, 3237, 9647, 5638, 8009, 9648, 5636, 2235, 5635, 9650, 8010, 5641,
       5508, 8011, 8012, 9651, 5637, 9652, 5639, 5640, 8013, 5652, 9654, 5648, 5529, 5647, 5646, 5643, 9655, 5620, 5645, 5644,
       9656, 9658, 5650, 4330, 9657, 5653, 2065, 9659, 9660, 5649, 5651, 8014, 8015, 3673, 5654, 9663, 9664, 9665, 9666, 5658,
       5655, 9667, 4219, 5656, 5608, 9669, 9670, 9671, 9672, 5659, 5660, 9674, 8018, 1525, 8019, 5662, 2139, 2539, 2027, 1602,
       8020, 9676, 4199, 8021, 5664, 5663, 5666, 1909, 2028, 1816, 5669, 8022, 5668, 5670, 9677, 1644, 3219, 5671, 1817, 5673,
       8023, 9678, 5672, 5674, 5675, 8024, 5676, 2507, 2935, 2351, 8025, 3840, 8026, 3920, 4360, 9679, 2529, 2398, 4312, 9680,
       8027, 5677, 5678, 9681, 2508, 5679, 5680, 9682, 8028, 5682, 5681, 4004, 2694, 2614, 2480, 5683, 5685, 2823, 5684, 9683,
       5686, 5687, 8029, 5688, 5689, 8030, 9684, 5690, 5692, 5691, 5693, 1603, 3238, 5694, 2450, 1736, 5695, 9686, 9687, 3418,
       4838, 1883, 5696, 9688, 9689, 9690, 5697, 3930, 4020, 8032, 3517, 5698, 3736, 8033, 8034, 3757, 9691, 4093, 5699, 9692,
       9693, 5701, 5700, 9694, 5703, 9695, 5702, 8035, 9696, 8036, 5705, 9697, 9698, 2509, 8037, 4059, 5706, 5707, 1884, 5708,
       5710, 5709, 8038, 2889, 9699, 9700, 3785, 1546, 9701, 3703, 9703, 3375, 2665, 1945, 9704, 3704, 2552, 5712, 1818, 8039,
       1592, 9705, 8040, 3560, 5711, 2286, 3247, 5713, 9729, 5721, 5714, 9706, 3135, 1946, 5722, 8042, 8043, 2140, 1885, 5720,
       5718, 5715, 4200, 9707, 8044, 8045, 3322, 9708, 3535, 5716, 5724, 5723, 2071, 9710, 9711, 1611, 9712, 8046, 2377, 5717,
       5719, 8047, 4003, 3186, 8041, 4035, 9713, 5732, 5733, 1645, 3862, 4135, 5735, 2541, 2760, 5728, 5734, 1576, 1997, 9714,
       5725, 5730, 8049, 2998, 3653, 3737, 9715, 5727, 8050, 3949, 9717, 5729, 5738, 9718, 5736, 9719, 5731, 8051, 3950, 3612,
       1947, 3389, 3273, 9720, 5739, 8052, 9721, 9722, 8053, 5737, 3159, 5726, 1547, 8048, 9724, 8055, 9725, 4182, 5750, 8056,
       5749, 3000, 5746, 4212, 3500, 5740, 9726, 3327, 9727, 9728, 1548, 2287, 5743, 8057, 9730, 8058, 2639, 5748, 9751, 5747,
       5742, 5745, 8059, 1764, 9731, 5744, 3613, 8060, 4244, 2810, 2999, 8061, 5756, 5754, 9732, 3805, 9733, 9734, 5751, 5753,
       8062, 1530, 2288, 4342, 1721, 3826, 9735, 4201, 1696, 2847, 5755, 9736, 9737, 8064, 5760, 8065, 2761, 8066, 9738, 4152,
       9739, 5757, 9740, 5752, 8067, 5758, 9741, 4292, 3467, 3512, 8068, 9747, 8069, 9748, 1714, 1557, 9749, 5764, 5767, 4265,
       8070, 4204, 9750, 8071, 5774, 5768, 5765, 9752, 4282, 5771, 9753, 9754, 9755, 2674, 5773, 5778, 8072, 3465, 5776, 8073,
       8074, 8075, 5770, 9756, 3220, 5777, 5766, 5772, 9757, 5779, 1502, 5769, 5780, 2848, 2695, 3859, 9758, 2364, 5761, 5775,
       3410, 8076, 2936, 1765, 2399, 2762, 5763, 2666, 2112, 5762, 9743, 5784, 2709, 2188, 5799, 9760, 5793, 1964, 3431, 9761,
       5788, 5797, 1425, 1522, 9762, 1623, 5790, 3114, 5781, 5783, 2289, 9764, 8078, 9759, 5800, 5795, 9765, 5787, 5794, 8079,
       9766, 9767, 4053, 9768, 9769, 5792, 5796, 9770, 9771, 9772, 9773, 2210, 9774, 2763, 3221, 8080, 8081, 5786, 9775, 4151,
       5789, 5782, 3466, 5785, 5791, 4373, 2568, 4042, 5801, 3680, 5813, 2189, 9777, 2696, 5803, 4245, 2290, 5816, 1488, 5814,
       9778, 5802, 8082, 5808, 8083, 5810, 9779, 4183, 5805, 3398, 5807, 9780, 8084, 5815, 9781, 5809, 4081, 8085, 5804, 9782,
       2540, 5828, 8086, 1766, 5806, 5811, 5812, 9783, 3178, 3160, 9785, 5820, 5826, 5824, 3393, 5831, 5821, 9786, 9787, 5822,
       5798, 1969, 3786, 2569, 2343, 9788, 9789, 4343, 8087, 5818, 5830, 1577, 3078, 9790, 8088, 3661, 1819, 4320, 9791, 8090,
       4043, 3340, 8091, 5825, 5827, 8092, 9784, 9792, 3026, 9793, 5829, 5823, 5817, 1821, 8093, 9795, 2141, 9796, 5843, 8094,
       9797, 5838, 3002, 8095, 1759, 9798, 8096, 8097, 2697, 5847, 9799, 5840, 3302, 5837, 3347, 5872, 5834, 5833, 5842, 9801,
       8098, 5836, 5835, 5841, 2915, 5832, 8099, 8100, 8101, 5844, 9802, 5845, 8102, 9803, 1820, 9800, 9805, 8103, 5850, 5849,
       5851, 9806, 8104, 5854, 9807, 3419, 5848, 9809, 8105, 5852, 8106, 9804, 2135, 3191, 5846, 3599, 5853, 8107, 9810, 9811,
       8108, 5858, 5856, 5859, 9812, 5862, 9813, 5855, 2330, 3580, 5759, 9814, 4220, 5857, 5861, 3187, 8110, 5860, 5839, 8111,
       7405, 8109, 5865, 9816, 5869, 9817, 5867, 8112, 8113, 9818, 5863, 9819, 5864, 5868, 5866, 3806, 5874, 5871, 5870, 5873,
       3530, 5875, 9820, 3281, 3179, 8114, 2919, 5876, 5878, 9822, 9823, 9824, 5877, 9825, 9826, 8115, 9827, 5819, 8118, 5879,
       9829, 3549, 8116, 8117, 5880, 8119, 9830, 9831, 1646, 9832, 9833, 3468, 1697, 8120, 9834, 1948, 2600, 2400, 9835, 9836,
       8121, 9837, 4331, 2890, 1578, 5882, 9838, 9839, 5881, 9842, 8122, 8123, 5885, 3222, 5888, 5883, 9843, 5887, 8124, 5886,
       3416, 1467, 9840, 4315, 9846, 5890, 1512, 9847, 9848, 8125, 8126, 5892, 9849, 5891, 5889, 8127, 9845, 5884, 3951, 5894,
       9850, 9851, 9852, 9853, 9854, 5893, 9855, 8128, 1579, 5896, 3872, 5895, 8130, 8131, 4063, 2765, 8129, 8132, 9857, 8133,
       9858, 3027, 2764, 8134, 8135, 4321, 9860, 5902, 3003, 9859, 8136, 8138, 9861, 5898, 5903, 1580, 8139, 9862, 8140, 5901,
       3637, 5897, 5900, 2766, 8141, 3715, 5904, 2587, 3004, 9865, 5907, 8143, 8144, 5899, 2075, 5905, 8145, 4184, 5908, 9864,
       7808, 9866, 2679, 9867, 9868, 5909, 5910, 9869, 9870, 3586, 9871, 5912, 8147, 5913, 8146, 3591, 8148, 3469, 5915, 9873,
       5917, 4283, 5914, 9874, 5916, 1581, 5911, 9875, 9876, 4759, 5918, 3079, 2468, 5920, 5919, 2824, 4663, 5921, 5923, 5906,
       5922, 8149, 5924, 8150, 3662, 9877, 5925, 5926, 8151, 5927, 5928, 3352, 9880, 5930, 5929, 5931, 5932, 9881, 2601, 3827,
       9882, 9883, 4118, 5933, 5934, 3062, 2542, 5935, 5936, 9885, 5937, 3904, 3705, 5938, 3627, 3303, 9886, 8152, 8153, 9887,
       5939, 1669, 1957, 4080, 4064, 1618, 4344, 9888, 3998, 3864, 9890, 9891, 2937, 5940, 9892, 3513, 2165, 5941, 9893, 2402,
       5943, 5942, 5944, 8155, 9894, 5945, 5946, 8156, 1910, 5947, 5948, 2166, 9896, 9897, 3706, 9898, 9899, 5950, 2811, 5949,
       8157, 8158, 9900, 1998, 5951, 5953, 5952, 9902, 5954, 2211, 5955, 2047, 3040, 2349, 5957, 5958, 5956, 2615, 3518, 1999,
       9905, 5960, 3208, 5959, 9906, 8159, 4345, 3638, 9907, 5963, 9908, 5965, 5962, 9909, 9910, 4094, 5964, 5966, 4266, 5970,
       8161, 8162, 5969, 3282, 3585, 9913, 2167, 5968, 9914, 9915, 5967, 4153, 4154, 9912, 9916, 5971, 1582, 2342, 2510, 5972,
       5973, 8164, 9917, 5975, 2667, 8165, 5977, 5976, 9919, 9920, 9922, 9923, 5978, 9924, 1737, 5980, 9925, 5979, 5982, 5981,
       8166, 9926, 2190, 9927, 4238, 2018, 9928, 1604, 9929, 8167, 2048, 9930, 9931, 9932, 8168, 8169, 8170, 9933, 8171, 9934,
       1851, 8172, 4302, 5984, 9935, 9936, 9937, 5986, 9938, 9939, 5987, 1647, 9940, 5983, 8173, 2469, 9941, 3323, 5985, 8174,
       8175, 8176, 5990, 2616, 9942, 8177, 5988, 9943, 8178, 2098, 3707, 5989, 6016, 5995, 9944, 9946, 2191, 9947, 1949, 5992,
       4229, 8179, 4246, 8180, 9945, 8181, 8182, 3188, 9948, 5994, 8184, 8185, 8186, 8187, 8188, 8189, 8190, 8191, 9949, 5996,
       4284, 2029, 3758, 3614, 9950, 5997, 5999, 9952, 6002, 9953, 8192, 8193, 8194, 8195, 9954, 9955, 9951, 5998, 8196, 6001,
       2236, 1549, 6003, 9956, 2900, 6000, 4290, 8197, 6006, 7806, 6004, 6007, 8198, 8199, 5993, 6005, 9957, 2378, 6008, 6009,
       9958, 4230, 9959, 8200, 8201, 9960, 8202, 6010, 8207, 9962, 9963, 8203, 9964, 8204, 6011, 8205, 9965, 9966, 5991, 8206,
       9967, 8208, 6012, 8209, 8210, 9968, 9969, 1822, 8211, 9970, 9972, 9971, 2543, 8212, 8213, 8214, 6013, 6014, 6015, 9973,
       9974, 8215, 1531, 9975, 6017, 3787, 6018, 1790, 6019, 6020, 9977, 6021, 9976, 6023, 6024, 6022, 3811, 6026, 6025, 9979,
       8216, 8217, 6028, 6027, 6029, 6030, 6032, 6031, 2345, 6034, 6033, 8218, 1823, 2871, 3412, 6035, 2938, 9981, 2470, 9982,
       1593, 6036, 4185, 9983, 3921, 6037, 8219, 3420, 4155, 2291, 2849, 3239, 4626, 3304, 1670, 6038, 9986, 9987, 9988, 6039,
       6044, 9989, 6042, 6041, 5392, 1698, 6040, 9990, 1468, 9991, 3676, 9992, 3708, 4247, 6045, 6043, 3256, 2920, 3677, 3773,
       6047, 4242, 2113, 6048, 6046, 3720, 6049, 9993, 6050, 8220, 1469, 9995, 9994, 2812, 6055, 6052, 3555, 6051, 8221, 9996,
       9997, 9998, 1886, 9999, 6058, 6053, 6054, 6057, 6056, 3765, 10001, 3042, 3041, 1911, 8222, 6059, 6060, 6061, 10003, 6063,
       6062, 1558, 10005, 6071, 3738, 6065, 6067, 10006, 6069, 2850, 6070, 6068, 2570, 10007, 10008, 6064, 6066, 3794, 10009, 2767,
       6073, 6072, 8224, 10010, 6074, 10011, 2544, 2365, 3471, 6075, 3333, 10012, 6077, 10013, 10014, 4231, 6076, 8225, 10015, 3081,
       10016, 10017, 6082, 10018, 6084, 6085, 3248, 10019, 6083, 6080, 6078, 6079, 8226, 6081, 8227, 10020, 10022, 8228, 6088, 6086,
       6087, 10023, 10026, 8229, 8230, 10021, 8231, 10027, 10028, 8232, 6089, 6091, 6092, 6093, 6094, 10030, 8835, 6090, 10031, 8233,
       6096, 10033, 6095, 8234, 6097, 10032, 10036, 4267, 8235, 6100, 6098, 6099, 10038, 8236, 1852, 4136, 10039, 3896, 6102, 6101,
       6103, 6104, 8237, 8238, 6108, 6105, 6106, 6107, 6109, 8239, 10041, 8240, 6110, 8241, 6111, 6112, 6113, 3681, 3432, 6114,
       3654, 3780, 6115, 8242, 6116, 3394, 1699, 2292, 6117, 6118, 6119, 2453, 6121, 10042, 6120, 6122, 6123, 8243, 10043, 8244,
       8245, 10045, 10044, 8246, 10046, 10047, 8247, 3739, 10048, 6124, 6125, 8248, 7781, 6126, 6127, 6128, 2458, 6129, 3626, 8249,
       4011, 1550, 10050, 1559, 8250, 6130, 8251, 6132, 8252, 6131, 3464, 2939, 5665, 6133, 4075, 6134, 1824, 3721, 6135, 8253,
       6136, 10052, 6137, 10053, 4102, 8254, 4095, 3320, 3082, 6139, 8255, 2698, 2768, 6142, 6141, 6140, 3759, 8256, 1825, 2171,
       10055, 8257, 10056, 6148, 6145, 2851, 4060, 6144, 6146, 6147, 6143, 10057, 8258, 10058, 8259, 6149, 6150, 3305, 1853, 3265,
       8260, 6151, 8261, 8262, 10063, 6152, 6155, 8263, 8264, 10064, 2891, 8265, 3514, 6156, 3999, 6153, 10065, 6154, 10067, 6159,
       8266, 10068, 10069, 6158, 6157, 8267, 6161, 6160, 6162, 8268, 10072, 6164, 10073, 6163, 10074, 10075, 3899, 10076, 8269, 2686,
       4268, 6165, 3501, 6166, 6167, 6171, 6169, 6170, 6168, 6172, 6173, 6174, 6175, 4065, 6176, 10077, 10078, 8270, 4122, 6177,
       10079, 3242, 10080, 3646, 2049, 10081, 10082, 3223, 6178, 2000, 10084, 2962, 10085, 10086, 6179, 2379, 10088, 10089, 10090, 6180,
       10091, 6181, 2168, 2403, 10092, 6183, 10093, 3438, 2404, 1926, 10094, 8271, 3952, 3615, 3439, 2316, 8273, 6185, 10095, 8274,
       8275, 8276, 2769, 10096, 8277, 10097, 4248, 2293, 8278, 2169, 3669, 6187, 6189, 2237, 6188, 3376, 10099, 6191, 1715, 6186,
       3740, 1520, 10100, 2426, 4374, 6190, 10102, 10103, 10104, 6192, 10101, 3897, 2971, 6194, 8282, 6195, 8280, 6193, 1738, 10105,
       6201, 6200, 2545, 6202, 6197, 10106, 6203, 6198, 10107, 10108, 3722, 6196, 6199, 10109, 6206, 10110, 10111, 8283, 10112, 6205,
       4013, 6204, 1485, 8284, 6208, 8286, 10113, 10114, 10115, 6207, 10116, 8285, 2770, 6209, 3043, 10118, 6211, 6210, 6212, 10119,
       8287, 10121, 6182, 6184, 6214, 6213, 8288, 10120, 8289, 8290, 2546, 10122, 4303, 2588, 6215, 2091, 8293, 8294, 1912, 1887,
       2511, 10123, 4156, 6221, 6220, 3044, 6217, 10124, 6219, 10125, 8298, 2675, 2852, 6218, 6216, 3582, 2771, 10127, 3788, 2405,
       10128, 3472, 8302, 6222, 6223, 6245, 2030, 4353, 3029, 6224, 1648, 3377, 3855, 10129, 10130, 10131, 8306, 10132, 6225, 10133,
       1970, 6226, 10134, 6228, 6229, 3581, 8307, 6230, 10135, 8308, 6231, 6232, 10136, 2031, 1649, 3515, 2640, 2512, 10137, 10138,
       8309, 6233, 8310, 2641, 10139, 10140, 1640, 3795, 8312, 6234, 10141, 3741, 8313, 3045, 6237, 6238, 3645, 2853, 6235, 3261,
       8314, 6236, 8315, 2772, 1470, 1889, 8316, 6239, 10146, 3378, 6240, 2953, 10147, 4055, 10148, 3763, 6241, 6242, 3249, 10149,
       4269, 10150, 6244, 6243, 10152, 2617, 6246, 1490, 6249, 10153, 8318, 6247, 1650, 2114, 6248, 2294, 2338, 3924, 6250, 4000,
       10154, 6252, 10155, 2963, 1551, 1624, 1422, 10156, 6251, 10157, 10158, 8319, 10159, 10160, 6253, 6254, 2813, 10161, 6255, 10162,
       1739, 8320, 6257, 2142, 10163, 1950, 10164, 6258, 2059, 6259, 3006, 3523, 10165, 2978, 2435, 8322, 6260, 10166, 10167, 3262,
       3083, 6262, 6264, 6261, 6263, 2070, 8323, 10168, 6265, 2074, 10169, 1951, 4186, 6267, 8325, 6268, 10172, 1518, 8326, 10173,
       10174, 6271, 1778, 6270, 6269, 6273, 6266, 6274, 4239, 10176, 6275, 8327, 6276, 10177, 4878, 6278, 6277, 6279, 6280, 4251,
       6281, 7505, 2773, 6282, 6283, 2687, 3502, 6284, 10178, 10179, 3204, 8328, 6285, 3224, 6286, 10180, 1979, 4543, 3257, 2557,
       8329, 1826, 6287, 6300, 6290, 10183, 1952, 6289, 6302, 6288, 2774, 8330, 6292, 6293, 3395, 6294, 1754, 2878, 3828, 10186,
       6296, 10187, 3174, 8331, 10188, 10189, 10190, 6291, 6295, 6297, 2441, 8332, 10185, 10194, 6304, 3774, 8333, 3672, 3473, 2032,
       6303, 6301, 8334, 3687, 6298, 3258, 3475, 3474, 10196, 2436, 6322, 8335, 10198, 6306, 10199, 6308, 10200, 6311, 8336, 6312,
       8337, 6309, 6310, 8338, 10201, 6307, 6305, 10197, 6299, 10193, 3901, 1651, 6319, 6316, 6321, 10204, 10205, 6320, 3655, 4049,
       2471, 6314, 6323, 6318, 10206, 6317, 6313, 8339, 6315, 1827, 3225, 3007, 10208, 3668, 6328, 10209, 3670, 10210, 2979, 6325,
       3713, 10211, 6329, 3905, 3255, 10212, 6324, 6326, 6327, 10215, 10216, 8341, 8342, 10217, 6330, 2574, 3516, 6335, 6334, 6331,
       10218, 4346, 10219, 6340, 6344, 6341, 6337, 8343, 10220, 6338, 10221, 6343, 10222, 10223, 6332, 4659, 6339, 6333, 6342, 8345,
       6348, 8346, 1828, 6345, 10224, 6346, 6347, 6350, 8344, 8347, 8348, 6349, 3752, 6351, 4322, 3931, 6356, 6353, 10225, 10226,
       6352, 2964, 6355, 6357, 10227, 6354, 6361, 10228, 6358, 8351, 10229, 6359, 6336, 10230, 6360, 6362, 10231, 6363, 8352, 10232,
       10233, 10234, 3892, 6364, 8353, 4108, 2020, 2077, 6365, 3874, 2892, 4058, 8354, 6366, 4249, 8355, 3656, 3046, 3592, 2677,
       1442, 8356, 6371, 6369, 6367, 1787, 10238, 2775, 6372, 6370, 6368, 6376, 6375, 6374, 6373, 10240, 10241, 6377, 8357, 6378,
       2940, 10242, 6379, 6381, 10244, 6380, 10246, 2212, 10247, 3032, 6383, 8358, 3476, 10249, 6382, 8359, 6384, 8360, 3875, 3084,
       2295, 6385, 10251, 4270, 10252, 6387, 6388, 6389, 10254, 6390, 2513, 6391, 2115, 1954, 1890, 6393, 10255, 4125, 2296, 6392,
       8361, 8362, 10256, 6396, 4112, 3600, 3779, 10258, 8363, 2699, 6395, 2589, 2297, 2514, 1953, 3876, 6394, 8364, 10259, 3047,
       3982, 2437, 8365, 2515, 3351, 6399, 4293, 2407, 8366, 6400, 2854, 6402, 2776, 2366, 10262, 10263, 6401, 10264, 8367, 2642,
       2192, 3048, 6397, 6403, 10265, 8368, 6398, 2116, 6406, 6410, 2143, 8369, 6405, 10269, 10270, 6414, 8370, 2298, 4213, 1438,
       6411, 1955, 6408, 10271, 6409, 10272, 3477, 6407, 6404, 1700, 2982, 2170, 8371, 6416, 10274, 8372, 10276, 10277, 6413, 8373,
       10278, 6415, 6412, 10279, 2117, 3121, 6417, 3086, 10281, 6430, 8374, 6426, 6420, 8375, 10282, 10283, 6424, 2628, 1471, 6419,
       6427, 6431, 2299, 4096, 3344, 6421, 10284, 10285, 6429, 6418, 3226, 6423, 1439, 4084, 10286, 8376, 6422, 2033, 3742, 8377,
       3085, 4278, 2711, 6470, 8378, 10287, 6432, 10288, 3008, 6428, 6433, 6435, 3379, 6438, 8379, 6434, 10289, 3906, 1829, 4085,
       1472, 10290, 6437, 4323, 10291, 6436, 1583, 3554, 6439, 8382, 6446, 6440, 6447, 10295, 8383, 6443, 8384, 10296, 3663, 10297,
       2580, 6445, 10298, 6442, 6448, 6441, 2668, 10299, 8381, 3953, 10300, 2676, 6444, 6456, 6452, 6455, 6453, 6457, 6451, 6425,
       2965, 3709, 6454, 10301, 6449, 8386, 3009, 2118, 2643, 8387, 2825, 3030, 6460, 6462, 6463, 6459, 6461, 8388, 6450, 6458,
       6466, 6465, 8836, 4038, 2079, 10302, 10303, 6464, 6468, 6467, 6471, 10304, 6473, 2472, 6469, 10305, 10306, 6474, 6475, 8389,
       6476, 8390, 6482, 3411, 6478, 10308, 6477, 6479, 6480, 6481, 10309, 10310, 6483, 6484, 1830, 6485, 6486, 10313, 10312, 10314,
       10315, 10316, 6487, 8391, 6488, 6489, 6490, 10317, 6491, 6492, 10320, 6494, 6493, 6495, 6496, 6497, 10322, 10323, 10324, 6500,
       6498, 6499, 2415, 2119, 10325, 3250, 3685, 2712, 3617, 3743, 6501, 5247, 10326, 10327, 6502, 6504, 4205, 6503, 6506, 6505,
       4187, 6507, 3760, 10329, 8393, 6508, 10332, 8394, 6511, 10333, 6510, 6509, 6512, 2086, 3010, 1913, 10334, 6516, 6513, 6514,
       6517, 6518, 6515, 1513, 8395, 1605, 10336, 6520, 6521, 6522, 4202, 8396, 10337, 2644, 6524, 6523, 8397, 8398, 2893, 6525,
       10338, 10339, 6526, 6527, 1855, 8399, 8400, 10340, 1831, 10341, 6528, 6529, 8401, 4009, 4203, 4188, 4347, 10342, 2301, 6532,
       2590, 6531, 10344, 10343, 6533, 2547, 10345, 3151, 10346, 6534, 8403, 2300, 10347, 4097, 6535, 6536, 6537, 6538, 10348, 8404,
       6539, 10349, 10350, 2548, 8405, 4119, 8406, 6541, 8407, 3227, 6540, 10351, 6543, 6542, 6544, 2941, 6545, 6546, 3879, 6547,
       3087, 6548, 10352, 6549, 4324, 6552, 10353, 6551, 6550, 3306, 10354, 6553, 2826, 6554, 10355, 6555, 4348, 6556, 6557, 6559,
       6558, 3671, 3567, 4354, 3675, 6561, 2777, 3770, 10356, 6562, 6560, 10357, 1832, 2214, 2516, 10358, 3744, 10359, 2172, 3983,
       6565, 6563, 2302, 2303, 1483, 2422, 10360, 3629, 1473, 6570, 10362, 3228, 8408, 3628, 3161, 10363, 6572, 8409, 10364, 6568,
       6571, 6566, 6569, 3954, 8410, 2215, 1503, 6567, 10365, 6574, 6575, 8411, 3503, 10368, 2001, 10369, 6586, 3601, 2517, 2002,
       2954, 4362, 4056, 6573, 2966, 10367, 10372, 8412, 1931, 6576, 10373, 6578, 10375, 10376, 6577, 10377, 6579, 3202, 3602, 10371,
       3307, 10379, 6583, 6582, 8413, 6580, 2873, 3829, 6585, 6584, 2304, 4375, 6601, 8414, 6589, 6590, 8415, 8416, 10381, 2618,
       8417, 6588, 2344, 6587, 6591, 3308, 3856, 3011, 3162, 6595, 10383, 6596, 6592, 10385, 10386, 6593, 6594, 2305, 6602, 6598,
       10388, 3830, 4024, 3768, 6597, 6600, 6599, 3984, 6603, 6604, 10389, 3031, 6605, 6607, 6611, 8418, 6608, 6606, 3603, 6609,
       10390, 6610, 10391, 1616, 6617, 6612, 8419, 6613, 8420, 6614, 3103, 10392, 8421, 6616, 6615, 6618, 10393, 6619, 6620, 2855,
       10395, 1671, 6621, 4285, 2549, 10397, 2645, 2518, 3251, 6622, 6623, 1521, 10399, 6624, 10400, 6625, 6626, 10402, 6627, 6628,
       2003, 5368, 6629, 2983, 6630, 2581, 6631, 4434, 6632, 3916, 1846, 10404, 3012, 2688, 3841, 2646, 10405, 10406, 6633, 2306,
       6634, 3710, 6648, 10408, 6636, 10409, 3143, 3657, 2193, 6635, 3013, 10410, 6637, 10413, 10411, 3380, 10412, 10415, 10417, 10419,
       6639, 6638, 6641, 10421, 6640, 6642, 8425, 6644, 10422, 6643, 1833, 6645, 6646, 6647, 2367, 4271, 6649, 2827, 8426, 1584,
       6650, 6651, 10426, 10428, 6652, 10429, 10430, 10431, 1492, 6653, 8428, 6654, 10432, 3831, 2577, 6656, 8429, 8430, 8431, 1701,
       1428, 10433, 10434, 8432, 6655, 6658, 3618, 8433, 2856, 1652, 10435, 3955, 10436, 8434, 2129, 2034, 10437, 6657, 10438, 1672,
       8435, 8436, 1789, 8437, 1585, 6662, 4304, 3163, 8438, 3796, 6674, 1653, 6672, 6670, 6661, 6659, 10439, 6660, 2605, 2050,
       3283, 10440, 3527, 1553, 6664, 6663, 10441, 6669, 6665, 6668, 8439, 8440, 8441, 8442, 4090, 6667, 1654, 1785, 6671, 10442,
       10443, 6673, 10444, 2120, 6677, 6686, 6687, 10446, 1421, 10447, 8444, 6694, 1491, 6685, 8445, 6684, 10448, 6679, 6678, 6676,
       6675, 3263, 3193, 6681, 8446, 10449, 6680, 8447, 10450, 6683, 8448, 3088, 2121, 1537, 6682, 8449, 2307, 10445, 8450, 10451,
       3089, 8443, 9536, 6700, 6701, 1655, 1612, 6698, 8451, 10453, 6688, 8452, 6696, 6703, 6697, 10456, 6695, 8453, 6666, 10457,
       10458, 6693, 8454, 6689, 10459, 10460, 1834, 6691, 6702, 6692, 8455, 6704, 8456, 6690, 3664, 4209, 6699, 6721, 8457, 8458,
       6713, 2911, 8459, 10461, 1918, 2035, 6708, 8460, 10462, 8461, 1657, 10463, 2778, 6711, 2408, 10464, 3433, 6716, 8462, 10465,
       3932, 8463, 6707, 1656, 2216, 3769, 6717, 6705, 6714, 10466, 6724, 6709, 8464, 6710, 3504, 8465, 6715, 8466, 6712, 3956,
       6718, 1474, 10467, 10468, 6706, 10469, 10471, 6720, 6719, 3647, 6726, 6737, 1786, 6740, 6722, 10472, 6727, 4214, 6736, 8468,
       4189, 10473, 4240, 10474, 10475, 10476, 3284, 10477, 10478, 1767, 10479, 8469, 3842, 6742, 3479, 10481, 1427, 6735, 6731, 3090,
       6725, 6733, 6738, 8470, 3584, 8471, 1420, 10482, 6730, 10483, 6739, 3848, 10484, 10485, 6734, 6729, 8472, 2779, 2647, 2550,
       10488, 4098, 3799, 8473, 6745, 6754, 10489, 6732, 8474, 1779, 8475, 2814, 6743, 8476, 6748, 3091, 10490, 6744, 8477, 6751,
       8478, 3259, 6752, 4190, 6741, 1716, 6747, 10492, 10493, 6750, 4054, 10494, 6753, 6746, 6749, 10487, 10496, 10497, 3957, 4325,
       10498, 10499, 10500, 6757, 10501, 6764, 10502, 6756, 2573, 6723, 10503, 3900, 4044, 6763, 6762, 6758, 6759, 1526, 10504, 8481,
       6761, 6755, 8482, 10505, 10506, 3343, 10507, 6760, 1504, 8483, 8480, 10508, 3104, 3889, 10513, 6765, 6769, 3723, 6768, 2780,
       2579, 6771, 2004, 10509, 10514, 10515, 6772, 3849, 6767, 8484, 6728, 10516, 10517, 10518, 6766, 8485, 4371, 3480, 3843, 6779,
       10510, 6785, 8488, 10520, 10521, 6786, 10522, 6773, 10523, 3658, 10524, 6783, 6775, 6777, 8489, 8490, 6787, 6776, 10525, 6780,
       1586, 3547, 6781, 6784, 10526, 10527, 8491, 6774, 3014, 6778, 2451, 2857, 2084, 4126, 8487, 4131, 2714, 8492, 10531, 6791,
       6789, 10532, 4370, 10533, 6788, 10534, 8493, 4221, 8494, 6790, 6792, 6793, 10535, 10536, 6796, 6794, 10537, 10538, 3481, 6795,
       10539, 3711, 6782, 8495, 10540, 2715, 6797, 6802, 3092, 6801, 8497, 10541, 6770, 8498, 8499, 6803, 3049, 6798, 6800, 8500,
       10542, 8496, 6799, 5657, 5642, 8502, 6805, 10543, 10544, 6804, 10545, 10546, 8503, 4222, 6138, 6806, 8504, 10548, 10549, 6807,
       10551, 1388, 6808, 2217, 1932, 10553, 6810, 4573, 10554, 8505, 1965, 8506, 4256, 2057, 6811, 8508, 6812, 3274, 8510, 10555,
       6813, 8511, 10556, 3568, 10557, 1436, 10558, 10559, 1665, 6818, 6819, 10560, 10561, 6814, 2473, 8512, 10562, 10563, 6815, 3606,
       10564, 6816, 6817, 6827, 6821, 6824, 10566, 10567, 6820, 8513, 10568, 10569, 6822, 6823, 2594, 6825, 3229, 2122, 1726, 10570,
       6828, 10571, 10572, 1723, 6833, 6829, 6832, 10573, 3692, 10574, 6830, 6831, 3800, 3724, 6834, 3195, 6844, 8514, 6840, 8515,
       8516, 1673, 6838, 3958, 6839, 10576, 6836, 10577, 6837, 6842, 6845, 8517, 6843, 10578, 10579, 6841, 6835, 10580, 3252, 10581,
       6852, 4052, 10582, 10583, 10584, 6850, 6851, 10585, 6846, 6848, 10586, 6849, 10587, 6847, 10588, 10589, 2984, 4349, 6856, 6857,
       10590, 6863, 2830, 6859, 10591, 6862, 6854, 6853, 6864, 10592, 10593, 1658, 6860, 6865, 6861, 8518, 10594, 6858, 3309, 6855,
       10595, 3644, 6869, 8519, 8520, 10599, 10600, 4163, 10601, 6868, 10602, 6867, 10598, 6876, 8521, 8522, 6870, 6878, 8523, 4206,
       6881, 6872, 10605, 6873, 10607, 6877, 6880, 6879, 6871, 10608, 6874, 6891, 8525, 10610, 6884, 10612, 10613, 10614, 10615, 10616,
       8526, 10617, 6882, 6883, 10609, 6888, 6889, 1702, 1914, 6887, 10618, 10619, 6866, 8527, 8528, 10620, 6886, 6890, 6885, 8529,
       6892, 10621, 8530, 6894, 6893, 8531, 6896, 6895, 6826, 6900, 10622, 10623, 6897, 10624, 6898, 6899, 6901, 10625, 2144, 6903,
       6902, 2648, 10627, 2308, 5741, 6904, 2681, 1717, 10628, 6905, 1554, 2781, 6906, 10629, 2309, 6907, 1475, 10630, 3789, 10633,
       6908, 10635, 2894, 6915, 6912, 3275, 6913, 6910, 2036, 6909, 6916, 2090, 3164, 6922, 6918, 3123, 6917, 8532, 6920, 6911,
       10636, 6921, 6923, 8533, 3745, 6919, 6924, 6926, 2213, 6914, 1443, 10637, 10638, 10639, 6925, 10640, 2409, 4316, 6927, 6928,
       3093, 8534, 8535, 4232, 10643, 10641, 10644, 6929, 4157, 6930, 6931, 10645, 3922, 6932, 2382, 4233, 6937, 10646, 10647, 6938,
       2782, 6936, 8537, 4207, 6933, 6935, 2943, 2914, 10649, 6934, 6939, 3857, 6941, 6940, 1768, 3959, 6942, 8540, 8541, 8542,
       8538, 6954, 6944, 6945, 8543, 6946, 6947, 8544, 8545, 6951, 10651, 6952, 8546, 6950, 8547, 6948, 10653, 6943, 6949, 10654,
       10655, 6953, 7449, 1606, 6956, 2037, 6955, 10658, 6958, 6957, 6960, 6959, 6961, 2649, 6962, 6963, 6964, 2944, 10659, 4191,
       6965, 3858, 3610, 6966, 10660, 6967, 2173, 1892, 10661, 6968, 8548, 2519, 3605, 6969, 1740, 10662, 6970, 6972, 4223, 6971,
       2858, 6973, 6974, 10663, 6975, 1835, 10664, 6976, 6977, 6978, 6979, 1741, 8550, 10665, 10666, 6980, 6981, 6982, 1680, 8551,
       2828, 6983, 10667, 10669, 10670, 6984, 8552, 6985, 10671, 10672, 2194, 3381, 6986, 2123, 2874, 6989, 3482, 6988, 10674, 8553,
       2085, 10675, 8554, 6987, 3189, 1893, 6990, 6991, 2783, 10677, 8555, 2145, 6992, 3960, 2977, 1966, 4127, 3050, 10678, 6993,
       8556, 2859, 3276, 2784, 10679, 6994, 10680, 6997, 8557, 6998, 10681, 8558, 2380, 3136, 6996, 2785, 3790, 10682, 6995, 8559,
       2520, 1555, 8560, 7002, 2124, 2522, 2521, 4369, 7001, 7000, 3015, 1925, 4359, 1718, 2786, 8561, 8562, 6999, 7004, 7005,
       7003, 2218, 4168, 2523, 3579, 10684, 7008, 2946, 3230, 4158, 7011, 2238, 2945, 7007, 7012, 2239, 7009, 7010, 8563, 7006,
       2980, 3519, 10683, 3211, 1659, 10685, 3746, 1915, 10686, 3310, 7015, 7013, 3240, 2947, 1836, 7014, 2879, 8564, 4272, 4356,
       10687, 7016, 7027, 3311, 7026, 8565, 7023, 7031, 7024, 7020, 3382, 7019, 7017, 4137, 2524, 7021, 7018, 8566, 8567, 7025,
       2716, 2195, 10688, 3192, 3985, 1562, 1476, 3483, 10691, 7029, 10690, 7028, 10692, 3548, 7033, 7022, 7032, 7034, 2174, 7030,
       2310, 10693, 2591, 10694, 7035, 4192, 7038, 7041, 7039, 3781, 10695, 7036, 2038, 7040, 7042, 10696, 8571, 7046, 7043, 7045,
       7044, 10698, 8572, 7047, 2555, 8573, 7049, 7048, 3832, 10699, 7051, 2125, 8574, 7050, 7052, 7053, 1916, 6519, 2815, 7054,
       10700, 2240, 7055, 10701, 7056, 10702, 2474, 5404, 10703, 7057, 7058, 2650, 7059, 7060, 10704, 10705, 7061, 7062, 7063, 10706,
       8575, 10707, 3207, 10708, 7064, 10710, 7066, 7065, 10713, 3484, 10714, 7067, 8576, 3961, 7068, 7069, 10715, 7070, 10716, 7071,
       10717, 3536, 2787, 7072, 8577, 10718, 2331, 4432, 7073, 10719, 10720, 7074, 3791, 7075, 7083, 7076, 7078, 7077, 7079, 3986,
       7080, 7081, 10723, 10722, 7082, 7084, 10724, 10726, 1705, 3361, 3833, 2416, 2311, 10727, 3807, 1661, 3712, 7087, 1837, 2967,
       7086, 7091, 3285, 4109, 7089, 7090, 1894, 7092, 3639, 3165, 3747, 3413, 7088, 3987, 1674, 7094, 4332, 3324, 4361, 2525,
       7093, 3119, 7110, 3016, 3566, 3808, 10729, 10728, 10730, 7097, 2475, 2526, 2788, 3641, 8579, 2175, 7096, 7095, 3834, 2571,
       3434, 10732, 10733, 8580, 8581, 7099, 7100, 2312, 7098, 8582, 7101, 7102, 7104, 3105, 10735, 7103, 1856, 7106, 10736, 7105,
       7107, 8584, 7109, 7111, 7112, 8585, 2968, 2585, 7113, 1742, 10737, 7114, 3094, 7115, 7116, 3835, 1895, 7117, 10738, 3312,
       1563, 10739, 7118, 2619, 10740, 2906, 8586, 3115, 7121, 7120, 7119, 10742, 10743, 7127, 7125, 8587, 7122, 8588, 7124, 8589,
       10744, 7123, 7126, 1967, 7130, 2969, 7131, 2219, 7128, 7129, 10745, 4333, 3313, 3017, 7132, 10748, 7135, 10749, 7133, 7134,
       4193, 10746, 3485, 7138, 10751, 10752, 7136, 7137, 7139, 8590, 10753, 10754, 8591, 10755, 7153, 7142, 7143, 7141, 10758, 10759,
       8592, 7140, 3383, 7145, 7149, 7146, 7144, 10760, 7147, 7148, 10761, 7155, 7150, 2970, 7152, 10762, 7154, 7151, 10763, 10764,
       10765, 8593, 7157, 2651, 7156, 8594, 7158, 7159, 7162, 7161, 7160, 7164, 7163, 4128, 7166, 7165, 7167, 10766, 7168, 10767,
       7170, 7169, 2860, 7171, 10768, 2051, 7172, 7174, 10769, 10770, 10771, 10772, 7175, 8596, 7176, 7173, 7177, 2592, 7178, 1896,
       2087, 10774, 2176, 10775, 7179, 3558, 3414, 7180, 7183, 2558, 10777, 8598, 7182, 7181, 2126, 7184, 10779, 1743, 7186, 10780,
       2410, 7185, 7194, 7188, 7190, 3923, 7187, 10781, 7189, 7193, 7191, 1897, 8599, 7192, 7195, 3630, 4286, 10782, 8600, 2652,
       7196, 8601, 4138, 7198, 7197, 7201, 4169, 10783, 7200, 1769, 7199, 7204, 7203, 10784, 7202, 3402, 7205, 8602, 7206, 10785,
       7207, 2332, 2073, 7208, 7209, 7210, 2861, 7211, 2551, 7212, 7213, 10787, 8604, 4607, 4606, 7214, 6472, 7215, 3200, 2831,
       3604, 10788, 8605, 10790, 7216, 3907, 3342, 2350, 3205, 10792, 1514, 4036, 2875, 10793, 10795, 10796, 2130, 2039, 10797, 3908,
       10798, 7217, 10799, 7219, 8606, 7218, 1662, 8607, 3564, 7220, 3659, 3403, 8608, 7221, 2682, 10800, 7223, 10801, 4076, 7238,
       7225, 7226, 10802, 3331, 3166, 3095, 10803, 3486, 7224, 1933, 8609, 7233, 10804, 7230, 7243, 3487, 3260, 7227, 3384, 3435,
       7228, 7232, 2884, 3643, 3334, 2948, 7231, 3116, 3106, 7229, 1419, 4326, 7234, 8610, 3167, 2653, 2862, 7236, 7235, 10805,
       1489, 7237, 3775, 7245, 3537, 2895, 10807, 10808, 3253, 2062, 7244, 4159, 1535, 3909, 1663, 7239, 7240, 7241, 7242, 3505,
       3199, 1477, 7246, 7247, 7805, 3131, 10809, 7248, 1587, 3052, 2177, 4194, 7249, 3396, 3096, 2593, 7250, 7253, 2701, 7251,
       3019, 3018, 1478, 4273, 7255, 3748, 7257, 7256, 7254, 6272, 1838, 10812, 7222, 8612, 7259, 7258, 10813, 7260, 10814, 4160,
       8613, 8614, 8615, 8616, 10816, 8617, 3543, 3962, 7261, 2595, 7262, 10818, 7263, 8618, 7264, 10819, 3385, 8619, 1484, 10820,
       8620, 8621, 8622, 10821, 2313, 4350, 8623, 7268, 10823, 8624, 8625, 10824, 2088, 7265, 7266, 3844, 10829, 1744, 8626, 10827,
       8627, 4161, 10826, 2005, 3436, 10830, 10831, 10828, 7269, 10832, 10833, 7270, 8629, 8630, 8631, 10834, 7271, 10835, 10836, 8632,
       8633, 8634, 3386, 8635, 7273, 8636, 7272, 8637, 10837, 10838, 10839, 8638, 10840, 10841, 8639, 3529, 7274, 2654, 2602, 3631,
       3277, 2620, 2896, 7275, 10842, 7276, 10843, 8640, 10844, 2881, 7277, 10845, 7278, 7279, 4215, 2655, 7281, 7280, 10846, 2314,
       2339, 2476, 10847, 7284, 8641, 10848, 2702, 7283, 7282, 3175, 10849, 2241, 2949, 3682, 2657, 8642, 7285, 2789, 10850, 7288,
       7286, 8643, 10851, 7287, 8644, 10852, 7290, 7289, 10853, 2816, 7291, 8645, 7292, 7293, 10854, 10855, 3714, 2401, 2603, 7294,
       7295, 4234, 2669, 4120, 4274, 7296, 2040, 7297, 8646, 3387, 10856, 7300, 1780, 2863, 7298, 7299, 3354, 8648, 8649, 4001,
       2066, 10859, 8650, 10860, 8651, 7302, 7303, 8647, 7301, 7305, 10861, 8652, 10862, 3541, 1727, 8653, 7309, 7306, 7308, 10863,
       10864, 7304, 7379, 7307, 10866, 4305, 2220, 8654, 8655, 8656, 8657, 7317, 8658, 10867, 8659, 3404, 7312, 10868, 7315, 7313,
       10869, 7318, 10870, 8660, 7319, 10871, 10872, 7311, 10873, 7324, 1588, 7310, 10874, 10875, 3679, 7314, 10876, 2790, 10877, 10878,
       2315, 8661, 10881, 10882, 3988, 10883, 2042, 2670, 3506, 8662, 10884, 10885, 3021, 7322, 7316, 7321, 10886, 4077, 10887, 3314,
       7323, 7320, 10888, 10889, 10890, 3020, 10893, 7327, 7326, 10894, 10895, 8663, 10896, 8664, 8665, 10897, 7325, 10898, 3963, 8666,
       10899, 10900, 8667, 2723, 10901, 10902, 7328, 3917, 1556, 3798, 3278, 10906, 1968, 10907, 7330, 10908, 2317, 8668, 10909, 8669,
       2456, 10910, 7329, 2897, 10903, 10911, 2898, 7333, 7335, 10912, 10913, 8670, 2817, 8671, 7334, 7336, 8672, 2025, 10914, 3797,
       10915, 2604, 4327, 7332, 2438, 4355, 7338, 7337, 7339, 7331, 10918, 8673, 8674, 8675, 3551, 3437, 10919, 3345, 7344, 10920,
       10921, 3231, 7340, 7341, 8676, 8677, 8678, 10922, 2081, 7343, 8679, 10923, 10924, 2178, 7342, 2791, 10928, 10929, 1781, 10930,
       7348, 2381, 3097, 3332, 8680, 10931, 10925, 8681, 1719, 7346, 7347, 3325, 7345, 7349, 8682, 10936, 7355, 8683, 10937, 7358,
       7357, 3397, 7350, 7351, 7354, 10938, 7356, 8684, 8685, 2006, 10939, 7359, 7353, 10940, 7352, 10935, 10932, 10945, 8687, 7363,
       8686, 7364, 10941, 10942, 7365, 7362, 7361, 10943, 10944, 2792, 3488, 7360, 7369, 7367, 10946, 8688, 10947, 7368, 7366, 3190,
       7370, 10948, 7371, 7373, 10949, 8689, 1839, 7372, 4132, 7384, 7374, 7377, 7375, 7376, 8690, 7378, 8691, 10952, 10953, 7380,
       8692, 8693, 7381, 7382, 7385, 7383, 7386, 7388, 7387, 3315, 10954, 10955, 4113, 7389, 3022, 10956, 7390, 3890, 7391, 1703,
       10957, 10958, 8694, 1532, 1841, 1840, 7392, 7393, 7394, 7395, 8695, 7396, 1842, 1745, 2318, 3688, 8696, 7398, 7397, 8697,
       10960, 8698, 7399, 1564, 10961, 8699, 7402, 7401, 7400, 8700, 7403, 7406, 1449, 10963, 7404, 8701, 7408, 7407, 8702, 8703,
       7410, 7409, 7411, 3492, 8705, 7412, 8706, 7413, 7415, 7414, 3836, 10815, 7416, 7417, 2419, 10966, 7418, 7419, 3989, 10967,
       10968, 3051, 10970, 1414, 3145, 10971, 7420, 3837, 7423, 7421, 2319, 7422, 2196, 8707, 3891, 7425, 7427, 7426, 7428, 10972,
       1505, 2876, 2724, 1843, 7429, 3642, 7431, 1506, 7430, 3326, 4275, 3489, 7424, 4236, 2179, 4195, 10974, 8708, 2063, 4250,
       2076, 3168, 6581, 7432, 1704, 2899, 1746, 7434, 7435, 7433, 2136, 10976, 2411, 2793, 8710, 1507, 4287, 8711, 8712, 7437,
       7252, 10979, 7436, 10980, 7440, 7438, 7439, 10981, 7441, 7442, 4306, 7443, 7444, 10982, 2955, 3693, 10983, 2913, 1857, 4162,
       1675, 2656, 2221, 7447, 7446, 2527, 7448, 7445, 2452, 8713, 7452, 6875, 10986, 4660, 10987, 2907, 7450, 10988, 8714, 4235,
       3559, 1515, 8716, 2981, 2560, 8717, 3877, 1536, 4307, 4211, 7453, 3421, 2629, 7454, 7455, 2864, 7456, 4308, 7451, 7458,
       7460, 7459, 7457, 10990, 7461, 7462, 3098, 1664, 10991, 7463, 4066, 7464, 7465, 4334, 8718, 10993, 5469, 7466, 8719, 7467,
       7468, 10994, 7472, 7469, 7470, 10995, 7471, 7473, 8720, 8721, 8722, 2950, 10996, 4129, 10997, 2951, 8723, 10998, 7474, 3749,
       7475, 7759, 4086, 7476, 7477, 7478, 1747, 10999, 7480, 2877, 8724, 7481, 8725, 2072, 7482, 7486, 7484, 7485, 1775, 7483,
       7487, 7488, 1450, 7489, 7490, 8726, 11002, 2794, 11003, 7491, 11004, 1919, 11005, 7494, 7493, 7492, 7037, 3914, 8727, 11006,
       11007, 7495, 7496, 8728, 11008, 8729, 7497, 7498, 7499, 8730, 7500, 11009, 11010, 1844, 11011, 11012, 11013, 8732, 7501, 8731,
       11014, 7502, 3575, 11015, 7504, 1625, 8733, 7507, 7506, 1508, 2007, 3893, 3316, 2352, 11016, 2320, 2703, 2880, 8735, 7509,
       11017, 11018, 7508, 4170, 1858, 3716, 3538, 11019, 11020, 2912, 4276, 2127, 8736, 7512, 11023, 7511, 11026, 8737, 3991, 3490,
       8738, 11024, 11025, 1552, 7513, 7510, 3809, 4210, 7514, 7515, 11027, 7517, 3176, 1751, 1752, 7516, 8740, 8741, 1859, 2180,
       8742, 8743, 1860, 8744, 8745, 3415, 4294, 8747, 11028, 2222, 7518, 8748, 7519, 7520, 7521, 7523, 7522, 3847, 7524, 11029,
       11030, 7525, 11031, 7526, 7527, 11033, 11034, 8749, 11035, 11036, 11037, 11038, 7529, 7528, 7530, 11039, 8750, 11040, 3750, 6530,
       2829, 11041, 11043, 1898, 11044, 11045, 8751, 7531, 11046, 7532, 4618, 5667, 3717, 11047, 11048, 1501, 11049, 1437, 2528, 3964,
       2820, 7533, 4105, 11050, 7534, 4196, 1538, 2477, 7535, 1676, 7536, 11053, 11054, 7537, 11056, 11057, 11058, 7539, 7540, 7542,
       7538, 7541, 1845, 7543, 7544, 11060, 11061, 11062, 11063, 11064, 11065, 7545, 7546, 11066, 11067, 7547, 7549, 11068, 7548, 7551,
       7554, 11069, 11070, 7550, 7552, 7553, 7555, 2008, 8752, 11071, 11072, 11073, 2621, 7556, 7557, 2321, 8753, 11074, 7558, 11075,
       1722, 3619, 7559, 7560, 3254, 3553, 11076, 7561, 11077, 11078, 3665, 11079, 3146, 1560, 2052, 2053, 11080, 3279, 7566, 2054,
       11081, 1677, 7565, 11082, 7563, 7564, 11083, 7562, 7576, 7567, 7568, 11085, 7569, 7570, 7572, 11086, 7571, 11087, 2689, 7573,
       8754, 8755, 7575, 11088, 1899, 7574, 11089, 3099, 2181, 11090, 7577, 11091, 11092, 8756, 3147, 7578, 8757, 8758, 3491, 11093,
       11094, 7579, 8759, 7584, 7582, 7581, 7583, 11095, 7580, 8760, 11096, 7586, 8761, 8762, 7585, 7588, 11097, 2009, 7587, 7589,
       7590, 7592, 7591, 7593, 7595, 7594, 2348, 7596, 11099, 7597, 8763, 11101, 1720, 11103, 7598, 7599, 8764, 8765, 2901, 11105,
       8766, 7600, 11106, 7601, 11107, 7602, 7603, 11108, 8767, 2322, 11110, 7604, 7605, 11111, 7606, 7607, 11112, 7608, 11113, 3683,
       7610, 3766, 7611, 7609, 7613, 7612, 7614, 8768, 7615, 8769, 11114, 7616, 8770, 11115, 11116, 11117, 11118, 7617, 7618, 11119,
       7619, 8771, 7620, 7621, 7622, 7623, 7624, 7625, 7626, 11120, 8773, 7627, 7628, 5661, 7629, 11121, 6386, 1900, 11122, 1693,
       2368, 7631, 7630, 4047, 11124, 7633, 7634, 7632, 7635, 4014, 7636, 1971, 8774, 11125, 11126, 8776, 11127, 11128, 4329, 8777,
       11129, 7637, 8778, 11130, 11131, 8775, 7639, 8779, 8780, 1440, 8781, 7640, 3865, 7638, 7641, 7642, 8782, 7643, 7644, 11132,
       8783, 7645, 4026, 2457, 11133, 2440, 3023, 11134, 11137, 7646, 11138, 7649, 11139, 7647, 8784, 7650, 11140, 2243, 7648, 8785,
       7651, 7652, 7653, 7657, 2454, 11142, 3170, 11143, 7658, 7655, 7654, 7656, 8786, 11144, 2131, 11145, 11146, 11148, 11147, 7662,
       7661, 7660, 11141, 1429, 11152, 8787, 11150, 8788, 8789, 7672, 7668, 7669, 7665, 7671, 7667, 1758, 4368, 7670, 7666, 7664,
       7663, 11154, 11155, 11156, 11157, 7674, 11158, 7677, 11159, 8790, 7676, 7675, 11160, 11161, 11162, 3801, 7673, 1493, 7678, 11164,
       7680, 11165, 11166, 1771, 7659, 1527, 7682, 8791, 11167, 7681, 7679, 3209, 11170, 11171, 8792, 8793, 4028, 8794, 11173, 4288,
       11174, 7683, 11175, 11168, 11176, 11177, 7684, 8795, 8796, 7685, 11178, 11179, 11180, 11181, 11182, 11183, 11184, 11185, 7686, 8797,
       7687, 11186, 3317, 11187, 7688, 3689, 7693, 7689, 7690, 11188, 3965, 4078, 3526, 11190, 7694, 7695, 3508, 7692, 7691, 11189,
       1608, 11192, 7703, 7702, 11193, 11194, 1589, 8798, 8799, 7700, 7699, 7697, 1783, 7696, 2556, 1607, 11198, 2323, 7706, 7705,
       7704, 11200, 8800, 7701, 7707, 8801, 7708, 11201, 7713, 7712, 8802, 7714, 1517, 7709, 7710, 11202, 2340, 4067, 11203, 8803,
       7711, 11205, 11206, 3966, 7719, 8804, 7715, 11208, 11209, 11210, 7720, 8805, 11211, 11212, 7717, 7716, 8806, 11213, 2128, 8807,
       11214, 7721, 11215, 7722, 7723, 7718, 8809, 7698, 7724, 3355, 11217, 7728, 11218, 7729, 7727, 8810, 11219, 11216, 8808, 7726,
       7732, 11220, 7725, 7730, 11221, 11222, 7731, 7734, 11223, 8811, 7733, 11224, 11225, 11226, 11227, 7736, 8813, 7737, 7738, 4365,
       11228, 7735, 3177, 2427, 7739, 11231, 8814, 11230, 11232, 8815, 11233, 7740, 7741, 11234, 11235, 7742, 7743, 2182, 7744, 11236,
       8816, 7745, 2553, 11238, 7746, 11239, 7747, 7748, 7749, 7752, 7750, 4352, 7751, 4309, 11240, 7753, 8817, 4289, 8818, 7754,
       3666, 11241, 7755, 7757, 8819, 7758, 8820, 8821, 8822, 7756, 2333, 4087, 4015, 5069, 11243, 5704, 4039, 8823, 1609, 7760,
       1928, 7761, 7762, 7763, 8824, 2341, 7764, 5974, 4101, 3169, 7765, 7767, 7766, 11245, 7768, 7769, 11246, 7770, 11247, 7771,
       7772, 7773, 7774, 7775, 7776, 7777, 7778, 11248, 11249, 11251, 7779, 7780, 3388, 8825, 2223, 7782, 11252, 11253, 3053, 7783,
       7784, 11254, 11255, 8826, 11256, 3761, 11257, 7785, 11258, 11259, 11260, 7786, 6227, 7108, 7503, 7787, 11261, 7788, 11262, 8827,
       11263, 11265, 7790, 7791, 7792, 4310, 7789, 7793, 7794, 11267, 7796, 7795, 11269, 11270, 7798, 11271, 7799, 7797, 4252, 8828,
       8829, 7800, 8830, 7801, 6256, 7802, 8831, 8017, 7816, 7942, 8507, 8031, 8746, 8709, 1359, 1371, 4406, 9583, 7986, 8142,
       8163, 8300, 8301, 8305, 8486, 10552, 10565, 8568, 10794, 8628, 1246, 1263, 1270, 1289, 1294, 1300, 1328, 1331, 1338, 1374,
       1378, 4389, 4390, 7850, 7862, 7864, 7867, 7904, 7907, 7931, 7965, 8063, 8077, 8089, 8137, 9879, 8183, 8279, 8291, 8292,
       8295, 8296, 8297, 8299, 8303, 8304, 8317, 8321, 8340, 8380, 10294, 8385, 8392, 8402, 8422, 10424, 10425, 8467, 8539, 8549,
       8569, 8570, 8578, 8583, 10789, 8611, 8715, 8734, 8739, 218, 217, 10, 110, 84, 80, 83, 85, 109, 42, 43,
       86, 60, 4, 111, 5, 31, 204, 205, 206, 207, 208, 209, 210, 211, 212, 213, 7, 8, 67, 65,
       68, 9, 87, 221, 222, 223, 224, 225, 226, 227, 228, 229, 230, 231, 232, 233, 234, 235, 236, 237,
       238, 239, 240, 241, 242, 243, 244, 245, 246, 46, 47, 16, 18, 14, 253, 254, 255, 256, 257, 258,
       259, 260, 261, 262, 263, 264, 265, 266, 267, 268, 269, 270, 271, 272, 273, 274, 275, 276, 277, 278,
       48, 35, 49, 17, 79, 1224, 8837, 8847, 8850, 8858, 8874, 8916, 8925, 8923, 9026, 9029, 9031, 9041, 9042, 9048,
       9055, 9057, 9066, 9074, 9075, 9081, 9084, 4376, 9111, 9128, 9144, 9136, 9135, 9147, 9175, 1350, 9178, 9185, 9180, 9193,
       9192, 9200, 1360, 9202, 9203, 9217, 9230, 1380, 9242, 9251, 4391, 9265, 9266, 1407, 9306, 8946, 8953, 8954, 8957, 8956,
       8967, 8962, 8961, 8970, 8972, 8973, 4402, 8989, 9000, 9006, 9308, 11237, 9317, 9322, 9354, 9375, 9383, 9388, 9404, 9418,
       9409, 9410, 9421, 9420, 9425, 9454, 9498, 9493, 7922, 9497, 9520, 9528, 9523, 9522, 9530, 9533, 9535, 9529, 9547, 9549,
       9548, 9553, 9581, 9582, 9598, 7978, 9622, 9619, 9623, 9620, 9645, 9634, 7999, 8008, 9653, 9662, 9661, 9668, 9673, 9685,
       9702, 8054, 9723, 10331, 9742, 9746, 9745, 9744, 9794, 9815, 9821, 9841, 9844, 9872, 9889, 9895, 8160, 9921, 9961, 9978,
       9980, 9985, 10000, 10025, 10029, 10034, 10037, 10049, 10051, 10054, 10059, 10062, 10061, 10066, 10070, 10087, 8272, 10098, 8281, 10117,
       8311, 10143, 10144, 8324, 10170, 10182, 10181, 10184, 10202, 10213, 10214, 8350, 10235, 10236, 10239, 10237, 10245, 10243, 10248, 10250,
       10253, 10261, 10260, 10267, 10266, 10275, 10280, 10293, 10319, 10321, 10328, 10335, 10361, 10366, 10378, 10394, 10396, 10398, 10401, 10403,
       10407, 10414, 10420, 10423, 8427, 9248, 10470, 10480, 8479, 10495, 10519, 10529, 10530, 10528, 8501, 10547, 10550, 10597, 10596, 10603,
       10606, 10611, 10632, 10631, 10634, 8536, 10642, 10650, 10652, 10656, 10676, 10689, 10709, 10711, 10712, 10721, 10731, 10734, 10741, 10750,
       10756, 8595, 10773, 10778, 8603, 10786, 10791, 10806, 10810, 10811, 10822, 10825, 10858, 10857, 10865, 10879, 10880, 10891, 10892, 10904,
       10905, 10917, 10916, 10926, 10927, 10934, 10933, 10950, 10951, 10959, 10962, 10964, 10965, 10969, 10973, 10975, 10977, 10985, 11000, 11001,
       11022, 11032, 11042, 11052, 11055, 11059, 11084, 11104, 11135, 11149, 11136, 11153, 11151, 11163, 11172, 11169, 11191, 11197, 11195, 11207,
       11204, 8812, 11242, 11244, 11264, 11266, 11268, 11272 >>

\* The number of bytes of the character that starts at raw[i]: 1 for a
\* JIS X 0201 byte, 2 for a lead byte followed by a trail byte whose cell
\* of JISX0213_DECODE holds a character, 0 when no character starts there.
CharLen(raw, i) ==
    IF raw[i] < 128 \/ raw[i] \in 161..223 THEN 1
    ELSE IF /\ i < Len(raw)
            /\ raw[i] \in (129..159) \cup (224..252)
            /\ raw[i + 1] \in (64..126) \cup (128..252)
            /\ JISX0213_DECODE[IF raw[i] < 160 THEN raw[i] - 128 ELSE raw[i] - 192]
                              [IF raw[i + 1] < 127 THEN raw[i + 1] - 63 ELSE raw[i + 1] - 64] # 0
    THEN 2
    ELSE 0

\* The code points of the character that starts at raw[i] (CharLen(raw, i)
\* > 0), decoded from shift_jis_2004: one, or the two of a cell that holds
\* a base character with its modifier.
DecodeChar(raw, i) ==
    IF raw[i] = 92 THEN <<165>>
    ELSE IF raw[i] = 126 THEN <<8254>>
    ELSE IF raw[i] < 128 THEN <<raw[i]>>
    ELSE IF raw[i] \in 161..223 THEN <<65377 + (raw[i] - 161)>>
    ELSE LET cell == JISX0213_DECODE[IF raw[i] < 160 THEN raw[i] - 128 ELSE raw[i] - 192]
                                    [IF raw[i + 1] < 127 THEN raw[i + 1] - 63 ELSE raw[i + 1] - 64]
         IN  IF cell > 0 THEN <<cell>>
             ELSE <<JISX0213_PAIRS[0 - cell][1], JISX0213_PAIRS[0 - cell][2]>>

\* bytes.decode("shift_jis_2004") succeeds on the bytes of raw from raw[i] on.
RECURSIVE Decodable(_, _)
Decodable(raw, i) ==
    i > Len(raw) \/ (CharLen(raw, i) > 0 /\ Decodable(raw, i + CharLen(raw, i)))

\* The bytes of raw from raw[i] on, decoded from shift_jis_2004, for a
\* decodable raw.
RECURSIVE Decode(_, _)
Decode(raw, i) ==
    IF i > Len(raw) THEN <<>>
    ELSE DecodeChar(raw, i) \o Decode(raw, i + CharLen(raw, i))

\* The cell of JISX0213_DECODE that holds the character code, looked up
\* among JISX0213_ORDER[lo..hi]; 0 when no cell holds it.
RECURSIVE CellOf(_, _, _)
CellOf(code, lo, hi) ==
    IF lo > hi THEN 0
    ELSE LET mid == (lo + hi) \div 2
             cell == JISX0213_ORDER[mid]
             held == JISX0213_DECODE[(cell - 1) \div 188 + 1][((cell - 1) % 188) + 1]
         IN  IF held = code THEN cell
             ELSE IF held < code THEN CellOf(code, mid + 1, hi)
             ELSE CellOf(code, lo, mid - 1)

\* One character encoded to shift_jis_2004: its bytes, none for a
\* character that has no encoding.
EncodeChar(code) ==
    IF code = 165 THEN <<92>>
    ELSE IF code = 8254 THEN <<126>>
    ELSE IF code \in 0..127 /\ code \notin {92, 126} THEN <<code>>
    ELSE IF code \in 65377..65439 THEN <<161 + (code - 65377)>>
    ELSE LET cell == CellOf(code, 1, Len(JISX0213_ORDER))
             row == (cell - 1) \div 188 + 1
             col == ((cell - 1) % 188) + 1
         IN  IF cell = 0 THEN <<>>
             ELSE << IF row <= 31 THEN row + 128 ELSE row + 192,
                     IF col <= 63 THEN col + 63 ELSE col + 64 >>

\* The bytes the encoder writes for codes[i] and codes[i + 1] when it takes
\* the two together, none when it takes codes[i] alone.  After a base
\* character of JISX0213_PAIRS it looks the next character up as a
\* modifier by its low 16 bits: a modifier of the base gives the bytes of
\* the pair, and low bits of 0 (U+0000, U+10000, ...) give the bytes of
\* the base alone, the next character being dropped.
EncodePair(codes, i) ==
    IF i >= Len(codes) \/ \A k \in 1..Len(JISX0213_PAIRS) : JISX0213_PAIRS[k][1] # codes[i]
    THEN <<>>
    ELSE IF \E k \in 1..Len(JISX0213_PAIRS) :
                /\ JISX0213_PAIRS[k][1] = codes[i]
                /\ JISX0213_PAIRS[k][2] = codes[i + 1] % 65536
    THEN LET k == CHOOSE k \in 1..Len(JISX0213_PAIRS) :
                     /\ JISX0213_PAIRS[k][1] = codes[i]
                     /\ JISX0213_PAIRS[k][2] = codes[i + 1] % 65536
         IN  <<JISX0213_PAIRS[k][3], JISX0213_PAIRS[k][4]>>
    ELSE IF codes[i + 1] % 65536 = 0 THEN EncodeChar(codes[i])
    ELSE <<>>

\* str.encode("shift_jis_2004") succeeds on the characters of codes from
\* codes[i] on.
RECURSIVE Encodable(_, _)
Encodable(codes, i) ==
    \/ i > Len(codes)
    \/ IF EncodePair(codes, i) # <<>> THEN Encodable(codes, i + 2)
       ELSE EncodeChar(codes[i]) # <<>> /\ Encodable(codes, i + 1)

\* The characters of codes from codes[i] on, encoded to shift_jis_2004, for
\* encodable codes.
RECURSIVE Encode(_, _)
Encode(codes, i) ==
    IF i > Len(codes) THEN <<>>
    ELSE IF EncodePair(codes, i) # <<>>
    THEN EncodePair(codes, i) \o Encode(codes, i + 2)
    ELSE EncodeChar(codes[i]) \o Encode(codes, i + 1)

\* The index of the first null at or after offset, 0 when there is none.
NullAfter(buffer, offset) ==
    IF \E i \in (offset + 1)..Len(buffer) : buffer[i] = 0
    THEN CHOOSE i \in (offset + 1)..Len(buffer) :
            buffer[i] = 0 /\ \A j \in (offset + 1)..(i - 1) : buffer[j] # 0
    ELSE 0

\* read_chars_from_buffer(buffer, offset, encoding="shift_jis_2004",
\* ignore_encoding_error_for_these_chars=JUNK_ENTRY_NAMES): [name, err].
ReadChars(buffer, offset) ==
    LET end == NullAfter(buffer, offset)
        raw == IF end = 0 THEN <<>> ELSE Slice(buffer, offset, end - 1)
    IN  IF end = 0 THEN [name |-> StrV(<<>>), err |-> "ValueError"]
        ELSE IF Decodable(raw, 1)
        THEN [name |-> StrV(Decode(raw, 1)), err |-> ""]
        ELSE IF raw \in JUNK_ENTRY_NAMES
        THEN [name |-> BytesV(raw), err |-> ""]
        ELSE [name |-> StrV(<<>>), err |-> "UnicodeDecodeError"]

\* name_z_str of ParamTable.pack, the null-terminated name it writes for
\* an entry: [name_z_str, err].  A junk name is written as it is; a str is
\* encoded, which raises UnicodeEncodeError at a character that has no
\* encoding; another value has no encode (AttributeError).
NameZStr(name) ==
    IF name.kind = "bytes" /\ name.v \in JUNK_ENTRY_NAMES
    THEN [name_z_str |-> Append(name.v, 0), err |-> ""]
    ELSE IF name.kind # "str"
    THEN [name_z_str |-> <<>>, err |-> "AttributeError"]
    ELSE IF ~Encodable(name.v, 1)
    THEN [name_z_str |-> <<>>, err |-> "UnicodeEncodeError"]
    ELSE [name_z_str |-> Append(Encode(name.v, 1), 0), err |-> ""]

(***************************************************************************)
(* BinaryStruct: the header and the entry pointers, little-endian.         *)
(***************************************************************************)
\* HEADER_STRUCT.size
HEADER_SIZE == 48

\* ENTRY_POINTER_STRUCT.size
ENTRY_POINTER_SIZE == 12

\* "LEVELSYNC_PARAM_ST"
LEVELSYNC_PARAM_ST == <<76, 69, 86, 69, 76, 83, 89, 78, 67, 95, 80, 65, 82, 65, 77, 95, 83, 84>>

\* The hard-coded entry size of LEVELSYNC_PARAM_ST.
LEVELSYNC_ENTRY_SIZE == 220

\* The largest value of the header's unsigned 16-bit entry data offset.
MAX_USHORT == 65535

Unsigned(buffer, offset, n) == LittleEndian(Slice(buffer, offset, offset + n))

Signed32(buffer, offset) ==
    LET low == Unsigned(buffer, offset, 3)
        high == Unsigned(buffer, offset + 3, 1)
    IN  low + Pow2(24) * (IF high >= 128 THEN high - 256 ELSE high)

\* A fixed-width, null-padded string field: the bytes before the first
\* null, decoded ([text, err]).
FixedString(raw) ==
    LET end == NullAfter(raw, 0)
        text == IF end = 0 THEN raw ELSE Slice(raw, 0, end - 1)
    IN  IF Decodable(text, 1) THEN [text |-> Decode(text, 1), err |-> ""]
        ELSE [text |-> <<>>, err |-> "UnicodeDecodeError"]

\* HEADER_STRUCT.unpack(param_buffer)
HeaderUnpack(buffer) ==
    IF Len(buffer) < HEADER_SIZE
    THEN [err |-> "struct.error"]
    ELSE IF FixedString(Slice(buffer, 12, 44)).err # ""
    THEN [err |-> FixedString(Slice(buffer, 12, 44)).err]
    ELSE IF Unsigned(buffer, 44, 1) # 0
    THEN [err |-> "ValueError"]
    ELSE [err |-> "",
          name_data_offset |-> Unsigned(buffer, 0, 4),
          entry_data_offset |-> Unsigned(buffer, 4, 2),
          magic0 |-> Unsigned(buffer, 6, 2),
          magic1 |-> Unsigned(buffer, 8, 2),
          entry_count |-> Unsigned(buffer, 10, 2),
          param_name |-> FixedString(Slice(buffer, 12, 44)).text,
          magic2 |-> Unsigned(buffer, 45, 2),
          unknown |-> Unsigned(buffer, 47, 1)]

\* HEADER_STRUCT.pack(header)
HeaderPack(header) ==
    ToBytes(header.name_data_offset, 4)
    \o ToBytes(header.entry_data_offset, 2)
    \o ToBytes(header.magic0, 2)
    \o ToBytes(header.magic1, 2)
    \o ToBytes(header.entry_count, 2)
    \o Encode(header.param_name, 1)
    \o Zeros(32 - Len(Encode(header.param_name, 1)))
    \o <<0>>
    \o ToBytes(header.magic2, 2)
    \o ToBytes(header.unknown, 1)

\* One entry of ENTRY_POINTER_STRUCT.unpack_count: the pointer at offset.
EntryPointerUnpack(buffer, offset) ==
    [id |-> Signed32(buffer, offset),
     data_offset |-> Signed32(buffer, offset + 4),
     name_offset |-> Signed32(buffer, offset + 8)]

\* ENTRY_POINTER_STRUCT.unpack_count(param_buffer, count), read after the header.
EntryPointersUnpack(buffer, count) ==
    [i \in 1..count |->
        EntryPointerUnpack(buffer, HEADER_SIZE + ENTRY_POINTER_SIZE * (i - 1))]

\* ENTRY_POINTER_STRUCT.pack(pointer)
EntryPointerPack(pointer) ==
    ToBytes(pointer.id, 4) \o ToBytes(pointer.data_offset, 4) \o ToBytes(pointer.name_offset, 4)

(***************************************************************************)
(* ParamTable: [param_name, magic, unknown, entries]; entries is the dict  *)
(* of the table, a sequence of [id, entry] in insertion order.             *)
(***************************************************************************)
HasId(entries, id) == \E i \in 1..Len(entries) : entries[i].id = id

\* self.entries[id] = entry
EntriesSet(entries, id, entry) ==
    IF HasId(entries, id)
    THEN [i \in 1..Len(entries) |->
            IF entries[i].id = id THEN [id |-> id, entry |-> entry] ELSE entries[i]]
    ELSE Append(entries, [id |-> id, entry |-> entry])

EntriesGet(entries, id) ==
    LET i == CHOOSE i \in 1..Len(entries) : entries[i].id = id IN entries[i].entry

\* sorted(self.entries.items())
SortedEntries(entries) ==
    LET rank(i) == 1 + Cardinality({j \in 1..Len(entries) : entries[j].id < entries[i].id})
    IN  [k \in 1..Len(entries) |-> entries[CHOOSE i \in 1..Len(entries) : rank(i) = k]]

\* A mutation of EntrySize: a single entry is measured from its pointer's
\* data offset.
EntrySizeFromPointer(param_name, name_data_offset, entry_data_offset, entry_pointers) ==
    IF Len(entry_pointers) = 1
    THEN IF param_name = LEVELSYNC_PARAM_ST
         THEN LEVELSYNC_ENTRY_SIZE
         ELSE name_data_offset - entry_pointers[1].data_offset
    ELSE entry_pointers[2].data_offset - entry_pointers[1].data_offset

\* The entry size ParamTable.unpack infers for one or more entry pointers;
\* entry_data_offset is param_buffer.tell() after the pointers were read.
EntrySize(param_name, name_data_offset, entry_data_offset, entry_pointers) ==
    IF Len(entry_pointers) = 1
    THEN IF param_name = LEVELSYNC_PARAM_ST
         THEN LEVELSYNC_ENTRY_SIZE
         ELSE name_data_offset - entry_data_offset
    ELSE entry_pointers[2].data_offset - entry_pointers[1].data_offset

\* self.entries[entry_struct["id"]] = ParamEntry(entry_data, self.paramdef,
\* name=name) at the end of the loop body of ParamTable.unpack; named is
\* the result of reading the name, r the result of the constructor.
StoreEntry(st, reads, id, named, r) ==
    IF named.err # "" THEN [st EXCEPT !.reads = reads, !.err = named.err]
    ELSE IF r.err # "" THEN [st EXCEPT !.reads = reads, !.err = r.err]
    ELSE [st EXCEPT !.reads = reads, !.entries = EntriesSet(st.entries, id, r.entry)]

\* The name ParamTable.unpack reads for an entry pointer: [name, err].
ReadName(buffer, name_offset) ==
    IF name_offset = 0 THEN [name |-> StrV(<<>>), err |-> ""]
    ELSE IF name_offset < 0 THEN [name |-> StrV(<<>>), err |-> "ValueError"]
    ELSE ReadChars(buffer, name_offset)

\* The entry the loop body builds from the bytes read and the name read.
ReadEntry(st, entry_struct, entry_data, named, paramdef) ==
    StoreEntry(st,
               Append(st.reads, [id |-> entry_struct.id,
                                 data_offset |-> entry_struct.data_offset,
                                 length |-> Len(entry_data)]),
               entry_struct.id, named,
               NewEntryFromBytes(entry_data, paramdef, named.name))

\* The body of the loop of ParamTable.unpack for one entry pointer.  st is
\* [entries, reads, err]: reads lists, per entry read, the pointer's data
\* offset and the number of bytes read.
UnpackEntry(st, buffer, entry_struct, entry_size, paramdef) ==
    IF entry_struct.data_offset < 0
    THEN [st EXCEPT !.err = "ValueError"]
    ELSE ReadEntry(st, entry_struct,
                   Read(buffer, entry_struct.data_offset, entry_size),
                   ReadName(buffer, entry_struct.name_offset), paramdef)

RECURSIVE UnpackEntries(_, _, _, _, _, _)
UnpackEntries(st, buffer, entry_pointers, i, entry_size, paramdef) ==
    IF i > Len(entry_pointers) \/ st.err # "" THEN st
    ELSE UnpackEntries(UnpackEntry(st, buffer, entry_pointers[i], entry_size, paramdef),
                       buffer, entry_pointers, i + 1, entry_size, paramdef)

\* The table ParamTable.__init__ sets up before it reads its source.
NoTable == [param_name |-> <<>>, magic |-> <<>>, unknown |-> None, entries |-> <<>>]

\* What ParamTable.unpack leaves and what it read: [table, err, entry_size,
\* reads]; st is the state its loop ended in.
Unpacked(header, entry_size, st) ==
    [table |-> IF st.err = ""
               THEN [param_name |-> header.param_name,
                     magic |-> <<header.magic0, header.magic1, header.magic2>>,
                     unknown |-> header.unknown,
                     entries |-> st.entries]
               ELSE NoTable,
     err |-> st.err, entry_size |-> entry_size, reads |-> st.reads]

\* ParamTable.unpack from the entry size on.
UnpackSized(param_buffer, paramdef, header, entry_pointers, entry_size) ==
    Unpacked(header, entry_size,
             UnpackEntries([entries |-> <<>>, reads |-> <<>>, err |-> ""],
                           param_buffer, entry_pointers, 1, entry_size, paramdef))

\* ParamTable.unpack once the entry pointers are read.
UnpackPointed(param_buffer, paramdef, header, entry_pointers) ==
    UnpackSized(param_buffer, paramdef, header, entry_pointers,
                EntrySize(header.param_name, header.name_data_offset,
                          HEADER_SIZE + ENTRY_POINTER_SIZE * header.entry_count,
                          entry_pointers))

\* ParamTable.unpack once the header is read.
UnpackHeaded(param_buffer, paramdef, header) ==
    IF header.err # ""
    THEN [table |-> NoTable, err |-> header.err, entry_size |-> 0, reads |-> <<>>]
    ELSE IF Len(param_buffer) < HEADER_SIZE + ENTRY_POINTER_SIZE * header.entry_count
    THEN [table |-> NoTable, err |-> "struct.error", entry_size |-> 0, reads |-> <<>>]
    ELSE IF header.entry_count = 0
    THEN Unpacked(header, 0, [entries |-> <<>>, reads |-> <<>>, err |-> ""])
    ELSE UnpackPointed(param_buffer, paramdef, header,
                       EntryPointersUnpack(param_buffer, header.entry_count))

\* ParamTable(param_source, paramdef_bnd) on bytes, that is ParamTable.unpack:
\* [table, err, entry_size, reads].  paramdef is what the bundle holds for
\* the table's name.
TableUnpack(param_buffer, paramdef) ==
    UnpackHeaded(param_buffer, paramdef, HeaderUnpack(param_buffer))

\* A mutation of PackOffsets: the name blob is placed at the start of the
\* data blob.
PackOffsetsNamesOverData(entry_count, data_length) ==
    [entry_pointer_table_offset |-> HEADER_SIZE,
     entry_data_offset |-> HEADER_SIZE + ENTRY_POINTER_SIZE * entry_count,
     name_data_offset |-> HEADER_SIZE + ENTRY_POINTER_SIZE * entry_count,
     entry_data_offset_hint |->
        Min2(HEADER_SIZE + ENTRY_POINTER_SIZE * entry_count, MAX_USHORT)]

\* The absolute offsets ParamTable.pack computes once the blobs are built,
\* and the entry data offset it writes in the header.
PackOffsets(entry_count, data_length) ==
    LET entry_pointer_table_offset == HEADER_SIZE
        entry_data_offset == entry_pointer_table_offset + ENTRY_POINTER_SIZE * entry_count
        name_data_offset == entry_data_offset + data_length
    IN  [entry_pointer_table_offset |-> entry_pointer_table_offset,
         entry_data_offset |-> entry_data_offset,
         name_data_offset |-> name_data_offset,
         entry_data_offset_hint |-> Min2(entry_data_offset, MAX_USHORT)]

\* A mutation of PackOrder: the entries are never sorted.
PackOrderUnsorted(entries, sort) == entries

\* sorted_entries of ParamTable.pack
PackOrder(entries, sort) == IF sort THEN SortedEntries(entries) ELSE entries

\* The body of the first loop of ParamTable.pack for one entry, r being
\* the result of entry.pack().  st is [entries, packed (per entry: id,
\* packed_entry, name_z_str and their relative offsets), packed_names,
\* packed_data, err, at].
PackEntry(st, entry_id, name_z_str, r) ==
    IF r.err # ""
    THEN [st EXCEPT !.entries = EntriesSet(st.entries, entry_id, r.entry),
                    !.err = r.err, !.at = r.at]
    ELSE [st EXCEPT
            !.entries = EntriesSet(st.entries, entry_id, r.entry),
            !.packed = Append(st.packed,
                [id |-> entry_id, packed_entry |-> r.packed_entry,
                 name_z_str |-> name_z_str,
                 name_offset |-> Len(st.packed_names),
                 data_offset |-> Len(st.packed_data)]),
            !.packed_names = st.packed_names \o name_z_str,
            !.packed_data = st.packed_data \o r.packed_entry]

\* The body of the first loop from the name on: the name is encoded
\* before entry.pack() is called, so a name that cannot be written leaves
\* the entry as it was.  named is the result of NameZStr.
PackNamed(st, entry_id, entry, named) ==
    IF named.err # "" THEN [st EXCEPT !.err = named.err]
    ELSE PackEntry(st, entry_id, named.name_z_str, EntryPack(entry))

\* The first loop of ParamTable.pack from item i of sorted_entries on.
RECURSIVE PackEntries(_, _, _)
PackEntries(st, sorted_entries, i) ==
    IF i > Len(sorted_entries) \/ st.err # "" THEN st
    ELSE PackEntries(PackNamed(st, sorted_entries[i].id, sorted_entries[i].entry,
                               NameZStr(sorted_entries[i].entry.name)),
                     sorted_entries, i + 1)

\* The second loop of ParamTable.pack: entry_pointer_data.
RECURSIVE PackPointers(_, _, _)
PackPointers(packed, offsets, i) ==
    IF i > Len(packed) THEN <<>>
    ELSE EntryPointerPack([id |-> packed[i].id,
                           data_offset |-> offsets.entry_data_offset + packed[i].data_offset,
                           name_offset |-> offsets.name_data_offset + packed[i].name_offset])
         \o PackPointers(packed, offsets, i + 1)

\* What ParamTable.pack returns and leaves, st being the state its first
\* loop ended in: [table, out, err, at, packed, packed_data, packed_names].
Packed(table, entry_count, st, offsets) ==
    IF st.err # ""
    THEN [table |-> [table EXCEPT !.entries = st.entries],
          out |-> <<>>, err |-> st.err, at |-> st.at,
          packed |-> <<>>, packed_data |-> <<>>, packed_names |-> <<>>]
    ELSE IF Len(table.magic) < 3
    THEN \* self.__magic[0] of a table that was not parsed
         [table |-> [table EXCEPT !.entries = st.entries],
          out |-> <<>>, err |-> "IndexError", at |-> "",
          packed |-> <<>>, packed_data |-> <<>>, packed_names |-> <<>>]
    ELSE [table |-> [table EXCEPT !.entries = st.entries],
          out |-> HeaderPack([name_data_offset |-> offsets.name_data_offset,
                              entry_data_offset |-> offsets.entry_data_offset_hint,
                              magic0 |-> table.magic[1],
                              magic1 |-> table.magic[2],
                              entry_count |-> entry_count,
                              param_name |-> table.param_name,
                              magic2 |-> table.magic[3],
                              unknown |-> table.unknown])
                  \o PackPointers(st.packed, offsets, 1)
                  \o st.packed_data \o st.packed_names,
          err |-> "", at |-> "",
          packed |-> st.packed, packed_data |-> st.packed_data,
          packed_names |-> st.packed_names]

\* ParamTable.pack from the offsets on.
PackLaidOut(table, entry_count, st) ==
    Packed(table, entry_count, st, PackOffsets(entry_count, Len(st.packed_data)))

\* ParamTable.pack once sorted_entries is chosen.
PackSorted(table, sorted_entries) ==
    PackLaidOut(table, Len(sorted_entries),
                PackEntries([entries |-> table.entries, packed |-> <<>>,
                             packed_names |-> <<>>, packed_data |-> <<>>,
                             err |-> "", at |-> ""],
                            sorted_entries, 1))

\* ParamTable.pack(sort)
TablePack(table, sort) == PackSorted(table, PackOrder(table.entries, sort))

\* ParamTable.__getitem__(entry_id): [entry, err].
TableGetItem(table, entry_id) ==
    IF HasId(table.entries, entry_id)
    THEN [entry |-> EntriesGet(table.entries, entry_id), err |-> ""]
    ELSE [entry |-> None, err |-> "KeyError"]

\* self.entries[entry_index] = entry, for the record r the constructor gave.
StoreBuilt(table, entry_index, r) ==
    IF r.err # "" THEN [table |-> table, err |-> r.err]
    ELSE [table |-> [table EXCEPT !.entries = EntriesSet(table.entries, entry_index, r.entry)],
          err |-> ""]

\* ParamTable.__setitem__(entry_index, entry): [table, err].  entry is a
\* mapping ([kind |-> "dict" or "OrderedDict", v |-> items]), a record
\* ([kind |-> "ParamEntry", v |-> entry]) or another value; paramdef is
\* self._paramdef_bnd[self.param_name].
TableSetItem(table, paramdef, entry_index, entry) ==
    IF entry.kind \in {"dict", "OrderedDict"}
    THEN IF ~HasKey(entry.v, "name")
         THEN [table |-> table, err |-> "ValueError"]
         ELSE StoreBuilt(table, entry_index, NewEntryFromMapping(entry, paramdef, None))
    ELSE IF entry.kind = "ParamEntry"
    THEN StoreBuilt(table, entry_index, [entry |-> entry.v, err |-> ""])
    ELSE [table |-> table, err |-> "TypeError"]

\* A mutation of TablePop: the table is built anew from the entries left, as
\* ParamTable(dict, paramdef_bnd) builds one, without magic and unknown.
TablePopRebuilds(table, entry_id) ==
    IF ~HasId(table.entries, entry_id)
    THEN [table |-> table, err |-> "KeyError"]
    ELSE [table |-> [NoTable EXCEPT
                        !.entries = SelectSeq(table.entries, LAMBDA e : e.id # entry_id)],
          err |-> ""]

\* ParamTable.pop(entry_id): [table, err].
TablePop(table, entry_id) ==
    IF ~HasId(table.entries, entry_id)
    THEN [table |-> table, err |-> "KeyError"]
    ELSE [table |-> [table EXCEPT
                        !.entries = SelectSeq(table.entries, LAMBDA e : e.id # entry_id)],
          err |-> ""]

\* table[entry_id][field] = value, for the r that table[entry_id] gave.
EditFetched(table, entry_id, r, field, value) ==
    IF r.err # "" THEN [table |-> table, err |-> r.err]
    ELSE StoreBuilt(table, entry_id, EntrySetItem(r.entry, field, value))

\* table[entry_id][field] = value: [table, err].
TableEditField(table, entry_id, field, value) ==
    EditFetched(table, entry_id, TableGetItem(table, entry_id), field, value)

(***************************************************************************)
(* State.  bits: one BitField and the calls made on it.  rec: one          *)
(* ParamEntry, the schema and the bytes it is built from, and the result   *)
(* of the last call on it.  tab: one ParamTable, the bytes it is parsed    *)
(* from, the bytes it was last packed to, the table parsed back from       *)
(* those, and the result and the locals of the last call.                  *)
(***************************************************************************)
VARIABLES bits, rec, tab

vars == <<bits, rec, tab>>

NoCall == [op |-> "none", value |-> 0, bit_count |-> 0, err |-> "", byte |-> None]

BitsIdle ==
    [bit_field |-> NewBitField, phase |-> "pack", calls |-> <<>>, buffer |-> <<>>,
     pos |-> 0, values |-> <<>>, last |-> NoCall]

NoEntry == [name |-> "", fields |-> <<>>, paramdef |-> [param_name |-> "", fields |-> <<>>],
            bit_field |-> NewBitField]

RecIdle ==
    [paramdef |-> [param_name |-> "", fields |-> <<>>], entry_buffer |-> <<>>,
     built |-> FALSE, entry |-> NoEntry, fresh |-> FALSE, edits |-> 0,
     last |-> [op |-> "none", err |-> "", at |-> "", packed_entry |-> <<>>, fresh |-> FALSE,
               field |-> None]]

NoTableCall ==
    [op |-> "none", err |-> "", at |-> "", sort |-> FALSE,
     packed |-> <<>>, packed_data |-> <<>>, packed_names |-> <<>>,
     entry_size |-> 0, reads |-> <<>>,
     entry_count |-> 0, data_length |-> 0,
     offsets |-> [entry_pointer_table_offset |-> 0, entry_data_offset |-> 0,
                  name_data_offset |-> 0, entry_data_offset_hint |-> 0]]

TabIdle ==
    [param_buffer |-> <<>>, paramdef |-> [param_name |-> "", fields |-> <<>>],
     built |-> FALSE, table |-> NoTable, edits |-> 0,
     out |-> <<>>, copy |-> NoTable, last |-> NoTableCall]

(***************************************************************************)
(* The bit cursor on its own: a new BitField, a run of pack calls, then    *)
(* pad, then the emitted bytes read back by unpack calls with the widths   *)
(* of the pack calls.  clear starts over.  An exception ends the run.      *)
(***************************************************************************)
BitWidths == 1..7

\* Values tried for a field of a run of several: the lowest bit alone and all bits.
EdgeValues(bit_count) == {1, Pow2(bit_count) - 1}

\* The first call of a run tries every value of the width, two that do not
\* fit and a negative one; later calls (made after a first call with an
\* edge value or the negative one) try the edge values, the first that does
\* not fit and the negative one.
PackInputs(calls, bit_count) ==
    IF calls = <<>> THEN -1..(Pow2(bit_count) + 1)
    ELSE IF calls[1].value \in EdgeValues(calls[1].bit_count) \cup {-1}
    THEN EdgeValues(bit_count) \cup {Pow2(bit_count), -1}
    ELSE {}

BitPack(value, bit_count) ==
    /\ bits.phase = "pack"
    /\ Len(bits.calls) < MaxBitFields
    /\ LET r == BitFieldPack(bits.bit_field, value, bit_count)
       IN  bits' = [bits EXCEPT
                !.bit_field = r.bf,
                !.phase = IF r.err # "" THEN "failed" ELSE "pack",
                !.calls = IF r.err # "" THEN bits.calls
                          ELSE Append(bits.calls, [value |-> value, bit_count |-> bit_count]),
                !.buffer = AddByte(bits.buffer, r.byte),
                !.last = [op |-> "pack", value |-> value, bit_count |-> bit_count,
                          err |-> r.err, byte |-> r.byte]]
    /\ UNCHANGED <<rec, tab>>

BitPad ==
    /\ bits.phase = "pack"
    /\ LET r == BitFieldPad(bits.bit_field)
       IN  bits' = [bits EXCEPT
                !.bit_field = r.bf,
                !.phase = IF r.err # "" THEN "failed" ELSE "unpack",
                !.buffer = AddByte(bits.buffer, r.byte),
                !.last = [op |-> "pad", value |-> 0, bit_count |-> 0,
                          err |-> r.err, byte |-> r.byte]]
    /\ UNCHANGED <<rec, tab>>

BitUnpack ==
    /\ bits.phase = "unpack"
    /\ Len(bits.values) < Len(bits.calls)
    /\ LET bit_count == bits.calls[Len(bits.values) + 1].bit_count
           r == BitFieldUnpack(bits.bit_field, bits.buffer, bits.pos, bit_count)
       IN  bits' = [bits EXCEPT
                !.bit_field = r.bf,
                !.phase = IF r.err # "" THEN "failed" ELSE "unpack",
                !.pos = r.pos,
                !.values = IF r.err # "" THEN bits.values ELSE Append(bits.values, r.value),
                !.last = [op |-> "unpack", value |-> r.value, bit_count |-> bit_count,
                          err |-> r.err, byte |-> None]]
    /\ UNCHANGED <<rec, tab>>

BitClear ==
    /\ bits.phase \in {"pack", "unpack"}
    /\ bits' = [BitsIdle EXCEPT
                !.bit_field = BitFieldClear(bits.bit_field),
                !.last = [op |-> "clear", value |-> 0, bit_count |-> 0,
                          err |-> "", byte |-> None]]
    /\ UNCHANGED <<rec, tab>>

InitBits == bits = BitsIdle /\ rec = RecIdle /\ tab = TabIdle

NextBits ==
    \/ \E bit_count \in BitWidths :
         \E value \in PackInputs(bits.calls, bit_count) : BitPack(value, bit_count)
    \/ BitPad
    \/ BitUnpack
    \/ BitClear

SpecBits == InitBits /\ [][NextBits]_vars

(***************************************************************************)
(* The record codec on one record: a ParamEntry is built from raw bytes    *)
(* under a schema, packed (any number of times) and edited.                *)
(***************************************************************************)
\* The field layouts the enumerated schemas are made of: two bit-width
\* layouts (the second a run of pad bits, tagged dummy8 as the bundled
\* schemas tag them), two scalars and a two-byte pad.
FieldKinds ==
    { [internal_type |-> "u8", bit_size |-> 3, size |-> 1],
      [internal_type |-> "dummy8", bit_size |-> 5, size |-> 1],
      [internal_type |-> "u8", bit_size |-> 8, size |-> 1],
      [internal_type |-> "s16", bit_size |-> 16, size |-> 2],
      [internal_type |-> "dummy8", bit_size |-> 16, size |-> 2] }

FieldNames == <<"f1", "f2", "f3", "f4", "f5", "f6">>

MakeField(kind, i) ==
    [name |-> FieldNames[i], debug_name |-> FieldNames[i],
     internal_type |-> kind.internal_type, bit_size |-> kind.bit_size, size |-> kind.size]

MakeParamDef(param_name, kinds) ==
    [param_name |-> param_name, fields |-> [i \in 1..Len(kinds) |-> MakeField(kinds[i], i)]]

\* A schema as the bundled ones are laid out: a flag bit and seven pad bits
\* filling one byte, a scalar, a pad byte pair, a signed scalar.
PaddedParamDef ==
    MakeParamDef("PADDED_PARAM_ST",
        << [internal_type |-> "u8", bit_size |-> 1, size |-> 1],
           [internal_type |-> "dummy8", bit_size |-> 7, size |-> 1],
           [internal_type |-> "u8", bit_size |-> 8, size |-> 1],
           [internal_type |-> "dummy8", bit_size |-> 16, size |-> 2],
           [internal_type |-> "s16", bit_size |-> 16, size |-> 2] >>)

\* A schema with the two fields whose undecodable data is tolerated: an
\* unsigned scalar with the debug name inverseToneMapMul, and the field
\* sfxMultiplier with a type tag the registry does not hold.
TolerantParamDef ==
    [param_name |-> "TOLERANT_PARAM_ST",
     fields |-> << [name |-> "f1", debug_name |-> "inverseToneMapMul",
                    internal_type |-> "u16", bit_size |-> 16, size |-> 2],
                   [name |-> "sfxMultiplier", debug_name |-> "sfxMultiplier",
                    internal_type |-> "f32x", bit_size |-> 32, size |-> 4] >>]

\* A schema with a field of a type tag the registry does not hold.
UnknownTypeParamDef ==
    MakeParamDef("UNKNOWN_PARAM_ST",
        << [internal_type |-> "u8", bit_size |-> 8, size |-> 1],
           [internal_type |-> "f32x", bit_size |-> 32, size |-> 4] >>)

EnumeratedParamDefs ==
    { MakeParamDef("TEST_PARAM_ST", kinds) :
        kinds \in UNION { [1..n -> FieldKinds] : n \in 1..MaxSchemaLen } }

ParamDefs ==
    EnumeratedParamDefs \cup {PaddedParamDef, TolerantParamDef, UnknownTypeParamDef}

\* The bytes ParamEntry.unpack has read, from a buffer that holds them all,
\* before it decodes field i: a bit-width field takes a byte when the
\* cursor holds none, and a byte-aligned field empties the cursor and
\* takes field.size bytes when it is a dummy8 field, the size of its type
\* when it is a scalar, none when the lookup of its type fails.  cur is
\* [read, open, offset].
RECURSIVE BytesReadBefore(_, _, _, _)
BytesReadBefore(fields, i, k, cur) ==
    IF k >= i THEN cur.read
    ELSE IF fields[k].bit_size < 8
    THEN LET read == IF cur.open THEN cur.read ELSE cur.read + 1
             offset == cur.offset + fields[k].bit_size
         IN  BytesReadBefore(fields, i, k + 1,
                 [read |-> read, open |-> offset < 8, offset |-> offset % 8])
    ELSE LET size == IF fields[k].internal_type = "dummy8" THEN fields[k].size
                     ELSE IF FieldType(fields[k]) = NoType THEN 0
                     ELSE TypeSize(FieldType(fields[k]))
         IN  BytesReadBefore(fields, i, k + 1,
                 [read |-> cur.read + size, open |-> FALSE, offset |-> 0])

FieldStart(fields, i) ==
    BytesReadBefore(fields, i, 1, [read |-> 0, open |-> FALSE, offset |-> 0])

\* The bytes ParamEntry.unpack reads for a schema from a buffer that holds
\* them all.
ByteSize(fields) == FieldStart(fields, Len(fields) + 1)

\* The byte values of the enumerated entry data: 0 and 181 (binary 10110101).
ByteValues == {0, 181}

\* The entry data tried for a schema: every slice of its byte size, and the
\* slices of one repeated byte value one byte short, one byte long, and of
\* one byte.
EntryBuffers(paramdef) ==
    LET n == ByteSize(paramdef.fields)
    IN  [1..n -> ByteValues]
        \cup { [i \in 1..(n - 1) |-> b] : b \in ByteValues }
        \cup { [i \in 1..(n + 1) |-> b] : b \in ByteValues }
        \cup { <<b>> : b \in ByteValues }

\* The values assigned to a field: the edges of a bit width and a
\* negative value; for an integer type the edges of its range, their outer
\* neighbours and a string; for a float 1.0, an infinity and an integer.
EditValues(field) ==
    IF field.bit_size < 8
    THEN {IntV(Pow2(field.bit_size) - 1), IntV(Pow2(field.bit_size)), IntV(-1)}
    ELSE IF FieldType(field) = "f32"
    THEN {FloatOne, [kind |-> "float", v |-> <<0, 0, 128, 127>>], IntV(0)}
    ELSE IF FieldType(field) # NoType
    THEN { IntV(TypeMinimum(field.internal_type) - 1), IntV(TypeMinimum(field.internal_type)),
           IntV(TypeMaximum(field.internal_type)), IntV(TypeMaximum(field.internal_type) + 1),
           [kind |-> "str", v |-> "a"] }
    ELSE {IntV(0)}

\* Fields assigned to besides the names of the schema: the first position,
\* the position past the last field, the last position counted from the
\* end, the position before the first counted from the end, and a name that
\* is no field.
EdgeFields(entry) ==
    { IntV(0), IntV(Len(entry.fields)), IntV(-1), IntV(0 - Len(entry.fields) - 1),
      [kind |-> "str", v |-> "zz"] }

\* ParamEntry(entry_buffer, paramdef, name="n")
RecUnpack ==
    /\ ~rec.built
    /\ LET r == NewEntryFromBytes(rec.entry_buffer, rec.paramdef, "n")
       IN  rec' = [rec EXCEPT
                !.built = r.err = "",
                !.entry = IF r.err = "" THEN r.entry ELSE NoEntry,
                !.fresh = r.err = "",
                !.last = [op |-> "unpack", err |-> r.err, at |-> r.at,
                          packed_entry |-> <<>>, fresh |-> FALSE, field |-> None]]
    /\ UNCHANGED <<bits, tab>>

\* entry.pack()
RecPack ==
    /\ rec.built
    /\ LET r == EntryPack(rec.entry)
       IN  rec' = [rec EXCEPT
                !.entry = r.entry,
                !.fresh = FALSE,
                !.last = [op |-> "pack", err |-> r.err, at |-> r.at,
                          packed_entry |-> r.packed_entry, fresh |-> rec.fresh,
                          field |-> None]]
    /\ UNCHANGED <<bits, tab>>

\* entry[field] = value
RecSetItem(field, value) ==
    /\ rec.built
    /\ rec.edits < MaxEdits
    /\ LET r == EntrySetItem(rec.entry, field, value)
       IN  rec' = [rec EXCEPT
                !.entry = r.entry,
                !.fresh = FALSE,
                !.edits = rec.edits + 1,
                !.last = [op |-> "setitem", err |-> r.err, at |-> "",
                          packed_entry |-> <<>>, fresh |-> FALSE, field |-> field]]
    /\ UNCHANGED <<bits, tab>>

InitEntry ==
    /\ bits = BitsIdle
    /\ tab = TabIdle
    /\ \E paramdef \in ParamDefs :
         \E entry_buffer \in EntryBuffers(paramdef) :
            rec = [RecIdle EXCEPT !.paramdef = paramdef, !.entry_buffer = entry_buffer]

NextEntry ==
    \/ RecUnpack
    \/ RecPack
    \/ \E i \in 1..Len(rec.paramdef.fields) :
         \E value \in EditValues(rec.paramdef.fields[i]) :
            RecSetItem([kind |-> "str", v |-> rec.paramdef.fields[i].name], value)
    \/ \E field \in EdgeFields(rec.entry) : RecSetItem(field, IntV(0))

SpecEntry == InitEntry /\ [][NextEntry]_vars

(***************************************************************************)
(* The table codec on one table: a ParamTable is parsed from a byte blob,  *)
(* packed (sorted or not), and the packed bytes are parsed again.          *)
(***************************************************************************)
\* A schema with a bit-width field last, its byte left unfilled.
TrailingBitsParamDef ==
    MakeParamDef("TRAILING_PARAM_ST",
        << [internal_type |-> "u8", bit_size |-> 8, size |-> 1],
           [internal_type |-> "u8", bit_size |-> 3, size |-> 1] >>)

TableParamDefs == {PaddedParamDef, TrailingBitsParamDef}

\* The ids of the enumerated entry pointers.
EntryIds == {1, 3, 5}

\* "TEST_PARAM_ST"
TEST_PARAM_ST == <<84, 69, 83, 84, 95, 80, 65, 82, 65, 77, 95, 83, 84>>

\* The data of the k-th entry of an enumerated blob.
RecordBytes(paramdef, k) ==
    IF paramdef = PaddedParamDef
    THEN <<2 * k + 1, 10 * k, 0, 0, 256 - k, 255>>
    ELSE <<10 * k, 5 + 8 * k>>

\* The name bytes of the entry with an id in an enumerated blob: a junk
\* name for id 5, a hiragana and a backslash (two bytes each) for id 3,
\* else a letter and the byte 92 (a yen sign).
NameBytes(id) ==
    IF id = 5 THEN <<128, 30>>
    ELSE IF id = 3 THEN <<130, 160, 129, 95>>
    ELSE <<96 + id, 92>>

RECURSIVE Concat(_, _)
Concat(parts, i) == IF i > Len(parts) THEN <<>> ELSE parts[i] \o Concat(parts, i + 1)

RECURSIVE TotalLen(_, _)
TotalLen(parts, i) == IF i <= 0 THEN 0 ELSE Len(parts[i]) + TotalLen(parts, i - 1)

\* The blob of one enumerated case c = [param_name, paramdef, ids, ascending,
\* spaced, lie, named]: a header, a pointer per id, the entry data (in
\* pointer order, or in reverse when not ascending; 28 bytes after the
\* pointers and 64 bytes apart when spaced, else packed tight), and the
\* names.  lie is added to the name offset the header states.  The magic
\* values and the unknown byte differ from case to case.
Blob(c) ==
    LET n == Len(c.ids)
        size == Len(RecordBytes(c.paramdef, 1))
        stride == IF c.spaced THEN 64 ELSE size
        data_start == HEADER_SIZE + ENTRY_POINTER_SIZE * n + (IF c.spaced THEN 28 ELSE 0)
        names_start == data_start + n * stride
        slot(j) == IF c.ascending THEN j - 1 ELSE n - j
        owner(k) == IF c.ascending THEN k ELSE n + 1 - k
        names == [j \in 1..n |-> Append(NameBytes(c.ids[j]), 0)]
        pointers == [j \in 1..n |->
            EntryPointerPack(
                [id |-> c.ids[j],
                 data_offset |-> data_start + slot(j) * stride,
                 name_offset |-> IF c.named THEN names_start + TotalLen(names, j - 1) ELSE 0])]
        data == [k \in 1..n |->
            RecordBytes(c.paramdef, owner(k)) \o Zeros(stride - size)]
    IN  HeaderPack([name_data_offset |-> names_start + c.lie,
                    entry_data_offset |-> Min2(data_start, MAX_USHORT),
                    magic0 |-> 1 + n,
                    magic1 |-> IF n >= 1 /\ c.spaced THEN 3 ELSE 0,
                    entry_count |-> n,
                    param_name |-> c.param_name,
                    magic2 |-> IF n >= 2 /\ ~c.ascending THEN MAX_USHORT ELSE 513,
                    unknown |-> IF n >= 1 /\ c.named THEN 9 ELSE 255])
        \o Concat(pointers, 1)
        \o Zeros(IF c.spaced THEN 28 ELSE 0)
        \o Concat(data, 1)
        \o (IF c.named THEN Concat(names, 1) ELSE <<>>)

\* The header's name offset and the table's name are read for one pointer
\* at most: tables of three pointers or more take the true offset and the
\* test name.
BlobCases ==
    { c \in [param_name : {TEST_PARAM_ST, LEVELSYNC_PARAM_ST},
             paramdef : TableParamDefs,
             ids : UNION { [1..n -> EntryIds] : n \in 0..MaxEntries },
             ascending : BOOLEAN,
             spaced : BOOLEAN,
             lie : {0, 12, -1},
             named : BOOLEAN] :
        /\ Len(c.ids) >= 3 => c.lie = 0
        /\ Len(c.ids) >= 3 => c.param_name = TEST_PARAM_ST
        /\ Len(c.ids) <= 1 => c.ascending }

\* The tables that are edited: none, one and two entries, parsed from blobs
\* that state their offsets truly.
EditedCases ==
    { c \in BlobCases :
        /\ c.ids \in {<<>>, <<1>>, <<3, 1>>}
        /\ c.param_name = TEST_PARAM_ST
        /\ c.lie = 0
        /\ c.named = (Len(c.ids) = 2)
        /\ c.spaced = (Len(c.ids) = 1)
        /\ c.ascending = (Len(c.ids) <= 1) }

EditedBlobs == { Blob(c) : c \in EditedCases }

\* "z"
NewName == StrV(<<122>>)

\* "\u0080", a name shift_jis_2004 has no encoding for.
BadName == StrV(<<128>>)

\* The items of a mapping that names every field of the schema: "name" and
\* a zero per field.
FieldMapping(paramdef) ==
    <<[name |-> "name", value |-> NewName]>>
    \o [i \in 1..Len(paramdef.fields) |->
          [name |-> paramdef.fields[i].name, value |-> IntV(0)]]

\* The values assigned to table[entry_index]: a record decoded with the
\* table's schema, a record decoded with the other schema, an OrderedDict
\* and a dict that name every field, an OrderedDict without "name", and an
\* int.
NewEntries(paramdef) ==
    { [kind |-> "ParamEntry",
       v |-> NewEntryFromBytes(RecordBytes(p, 4), p, NewName).entry] : p \in TableParamDefs }
    \cup { [kind |-> "ParamEntry",
            v |-> NewEntryFromBytes(RecordBytes(paramdef, 4), paramdef, BadName).entry] }
    \cup { [kind |-> "OrderedDict", v |-> FieldMapping(paramdef)],
           [kind |-> "dict", v |-> FieldMapping(paramdef)],
           [kind |-> "OrderedDict", v |-> Tail(FieldMapping(paramdef))],
           IntV(0) }

\* Edits are made between the construction and the first pack.
Editable ==
    /\ tab.built
    /\ tab.edits < MaxTableEdits
    /\ tab.last.op \in {"unpack", "dict", "setitem", "pop", "edit"}
    /\ tab.param_buffer = <<>> \/ tab.param_buffer \in EditedBlobs

\* The state after an insertion, a removal or a field edit returned r.
AfterEdit(t, op, r) ==
    [t EXCEPT !.table = r.table, !.edits = t.edits + 1,
              !.last = [NoTableCall EXCEPT !.op = op, !.err = r.err]]

\* table[entry_index] = entry
TabSetItem(entry_index, entry) ==
    /\ Editable
    /\ tab' = AfterEdit(tab, "setitem",
                        TableSetItem(tab.table, tab.paramdef, entry_index, entry))
    /\ UNCHANGED <<bits, rec>>

\* table.pop(entry_id)
TabPop(entry_id) ==
    /\ Editable
    /\ tab' = AfterEdit(tab, "pop", TablePop(tab.table, entry_id))
    /\ UNCHANGED <<bits, rec>>

\* table[entry_id][field] = value
TabEdit(entry_id, field, value) ==
    /\ Editable
    /\ tab' = AfterEdit(tab, "edit", TableEditField(tab.table, entry_id, field, value))
    /\ UNCHANGED <<bits, rec>>

\* The state after ParamTable(param_buffer, paramdef_bnd) returned r.
AfterUnpack(t, r) ==
    [t EXCEPT
        !.built = r.err = "",
        !.table = r.table,
        !.last = [NoTableCall EXCEPT !.op = "unpack", !.err = r.err,
                     !.entry_size = r.entry_size, !.reads = r.reads]]

\* ParamTable(param_buffer, paramdef_bnd)
TabUnpack ==
    /\ ~tab.built
    /\ tab.param_buffer # <<>>
    /\ tab' = AfterUnpack(tab, TableUnpack(tab.param_buffer, tab.paramdef))
    /\ UNCHANGED <<bits, rec>>

\* ParamTable(param_source, paramdef_bnd) on a dict: self.entries is the
\* mapping given, unread; the table has no name, no magic values and no
\* unknown value, and nothing is read from the bundle.
TabFromDict(param_source) ==
    /\ ~tab.built
    /\ tab.param_buffer = <<>>
    /\ tab.last.op = "none"
    /\ tab' = [tab EXCEPT
            !.built = TRUE,
            !.table = [NoTable EXCEPT !.entries = param_source],
            !.last = [NoTableCall EXCEPT !.op = "dict"]]
    /\ UNCHANGED <<bits, rec>>

\* The state after table.pack(sort) returned r.
AfterPack(t, sort, r) ==
    [t EXCEPT
        !.table = r.table,
        !.out = r.out,
        !.copy = NoTable,
        !.last = [NoTableCall EXCEPT !.op = "pack", !.err = r.err, !.at = r.at,
                     !.sort = sort,
                     !.packed = r.packed, !.packed_data = r.packed_data,
                     !.packed_names = r.packed_names]]

\* table.pack(sort)
TabPack(sort) ==
    /\ tab.built
    /\ tab' = AfterPack(tab, sort, TablePack(tab.table, sort))
    /\ UNCHANGED <<bits, rec>>

\* The state after ParamTable(out, paramdef_bnd) returned r.
AfterReparse(t, r) ==
    [t EXCEPT
        !.copy = r.table,
        !.last = [NoTableCall EXCEPT !.op = "reparse", !.err = r.err,
                     !.sort = t.last.sort,
                     !.entry_size = r.entry_size, !.reads = r.reads]]

\* ParamTable(out, paramdef_bnd) on the bytes last packed.
TabReparse ==
    /\ tab.built
    /\ tab.last.op = "pack"
    /\ tab.last.err = ""
    /\ tab' = AfterReparse(tab, TableUnpack(tab.out, tab.paramdef))
    /\ UNCHANGED <<bits, rec>>

\* The offsets ParamTable.pack computes for a table too large to enumerate,
\* of entry_count entries that pack to entry_length bytes each.
TabOffsets(entry_count, entry_length) ==
    /\ ~tab.built
    /\ tab.last.op = "none"
    /\ Len(tab.param_buffer) = HEADER_SIZE
    /\ tab' = [tab EXCEPT
            !.last = [NoTableCall EXCEPT !.op = "offsets",
                         !.entry_count = entry_count,
                         !.data_length = entry_count * entry_length,
                         !.offsets = PackOffsets(entry_count, entry_count * entry_length)]]
    /\ UNCHANGED <<bits, rec>>

\* A table is constructed from the bytes of a blob or, where there is no
\* blob, from a dict of records.
Init ==
    /\ bits = BitsIdle
    /\ rec = RecIdle
    /\ \/ \E c \in BlobCases :
            tab = [TabIdle EXCEPT !.param_buffer = Blob(c), !.paramdef = c.paramdef]
       \/ \E paramdef \in TableParamDefs :
            tab = [TabIdle EXCEPT !.paramdef = paramdef]

Next ==
    \/ TabUnpack
    \* the dicts given: an empty one, one record of either schema at id 7,
    \* and two records of the bundle's schema held in the order 3, 1
    \/ \E param_source \in
            {<<>>,
             <<[id |-> 3,
                entry |-> NewEntryFromBytes(RecordBytes(tab.paramdef, 3),
                                            tab.paramdef, NewName).entry],
               [id |-> 1,
                entry |-> NewEntryFromBytes(RecordBytes(tab.paramdef, 1),
                                            tab.paramdef, NewName).entry]>>}
            \cup { <<[id |-> 7,
                      entry |-> NewEntryFromBytes(RecordBytes(p, 4), p, NewName).entry]>> :
                     p \in TableParamDefs } :
         TabFromDict(param_source)
    \/ \E sort \in BOOLEAN : TabPack(sort)
    \/ TabReparse
    \/ \E entry_index \in {1, 2} : \E entry \in NewEntries(tab.paramdef) :
         TabSetItem(entry_index, entry)
    \/ \E entry_id \in {1, 2} : TabPop(entry_id)
    \/ \E entry_id \in {1, 2} : \E value \in {IntV(1), IntV(300)} :
         TabEdit(entry_id, [kind |-> "str", v |-> "f1"], value)
    \* the entry counts around the one whose pointers end at offset 65535
    \/ \E entry_count \in {5457, 5458, 5459} : \E entry_length \in {2, 6} :
         TabOffsets(entry_count, entry_length)

Spec == Init /\ [][Next]_vars

(***************************************************************************)
(* Properties of the bit cursor (checked under SpecBits).                  *)
(***************************************************************************)
\* The bits packed by the calls before call i.
RECURSIVE BitsBefore(_, _)
BitsBefore(calls, i) ==
    IF i <= 1 THEN 0 ELSE BitsBefore(calls, i - 1) + calls[i - 1].bit_count

\* No field of the run spans a byte boundary.
NoFieldSpans(calls) ==
    \A i \in 1..Len(calls) : (BitsBefore(calls, i) % 8) + calls[i].bit_count <= 8

\* C3: Bit Cursor round-trip.  For a run of pack calls with widths 1..7 and
\* values from 0 that fit, in which no field spans a byte boundary, the
\* bytes the calls and the closing pad emitted decode, through unpack calls
\* with the same widths, to the same values in the same order, and neither
\* the pad nor an unpack fails.
C3_BitRoundTrip ==
    (/\ bits.last.op \in {"pad", "unpack"}
     /\ NoFieldSpans(bits.calls)
     /\ \A i \in 1..Len(bits.calls) : bits.calls[i].value >= 0) =>
        /\ bits.last.err = ""
        /\ Len(bits.values) <= Len(bits.calls)
        /\ \A i \in 1..Len(bits.values) : bits.values[i] = bits.calls[i].value

\* C3 witness: three fields, the first two filling one byte, the third in a
\* second byte, all three read back.
C3_Witness ==
    /\ bits.last.op = "unpack"
    /\ Len(bits.calls) = 3
    /\ Len(bits.values) = 3
    /\ NoFieldSpans(bits.calls)
    /\ BitsBefore(bits.calls, 3) = 8
    /\ bits.calls[1].value = 1
    /\ bits.calls[2].bit_count = 5
    /\ bits.pos = 2

\* C4, as claimed: BitField.pack(value, bit_count) raises, returning no
\* byte, for every value >= 2^bit_count, and raises nothing for a value
\* from 0 to 2^bit_count - 1.
C4_PackRejectsWide ==
    bits.last.op = "pack" =>
        /\ bits.last.value >= Pow2(bits.last.bit_count) =>
               (bits.last.err # "" /\ bits.last.byte = None)
        /\ (0 <= bits.last.value /\ bits.last.value < Pow2(bits.last.bit_count)) =>
               bits.last.err = ""

\* C17: Bit Cursor unpack does not carry a remainder across bytes, as
\* claimed: when BitField.unpack has cleared the buffer, the offset at which
\* the next unpack extracts the bits of the fresh byte is 0.
C17_UnpackCarriesNoRemainder ==
    (bits.last.op = "unpack" /\ bits.last.err = "" /\ bits.bit_field.field = <<>>) =>
        bits.bit_field.offset = 0

\* C17, amended: a BitField.unpack call that advances the offset to 8 or
\* beyond clears the buffer and keeps the offset modulo 8 (0 when the offset
\* reached 8 exactly); an unpack call made with the buffer cleared reads one
\* fresh byte and returns the bits of that byte from the kept offset on, as
\* many as the width asks for and the byte has left.
C17_UnpackCarriesOffset ==
    [][(bits'.last.op = "unpack" /\ bits'.last.err = "") =>
         /\ (bits.bit_field.offset + bits'.last.bit_count >= 8) =>
               bits'.bit_field =
                  [field |-> <<>>,
                   offset |-> (bits.bit_field.offset + bits'.last.bit_count) % 8]
         /\ (bits.bit_field.field = <<>>) =>
               /\ bits'.pos = bits.pos + 1
               /\ bits'.last.value =
                    (bits.buffer[bits.pos + 1] \div Pow2(bits.bit_field.offset))
                       % Pow2(Min2(bits'.last.bit_count, 8 - bits.bit_field.offset))]_vars

\* C17 witness: fields of 5, 5 and 3 bits were read back; the second went
\* two bits beyond the first byte, and the third was read from the second
\* byte at offset 2.
C17_Witness ==
    /\ bits.last.op = "unpack"
    /\ bits.last.err = ""
    /\ Len(bits.values) = 3
    /\ bits.calls[1].bit_count = 5
    /\ bits.calls[2].bit_count = 5
    /\ bits.calls[3].bit_count = 3
    /\ bits.pos = 2
    /\ bits.bit_field.offset = 5

(***************************************************************************)
(* Properties of the record codec (checked under SpecEntry).               *)
(***************************************************************************)
\* The last call raised at field i or later, or not at all.
ReachedField(fields, i) ==
    rec.last.err = "" \/ \E j \in i..Len(fields) : fields[j].name = rec.last.at

IsPadField(field) == field.bit_size >= 8 /\ field.internal_type = "dummy8"

IsScalarField(field) == field.bit_size >= 8 /\ field.internal_type # "dummy8"

\* C2: Record format stability, as claimed: ParamEntry.pack on a freshly
\* decoded record, decoded without a tolerated substitution (no scalar
\* with one of the two tolerated debug names was short of bytes), returns
\* the bytes the record was decoded from.
C2_PackReproducesBytes ==
    LET fields == rec.paramdef.fields
        substituted ==
            \E i \in 1..Len(fields) :
                /\ IsScalarField(fields[i])
                /\ fields[i].debug_name \in {"inverseToneMapMul", "sfxMultiplier"}
                /\ Len(rec.entry_buffer) < FieldStart(fields, i + 1)
    IN  (rec.last.op = "pack" /\ rec.last.fresh /\ ~substituted) =>
            (rec.last.err = "" /\ rec.last.packed_entry = rec.entry_buffer)

\* C7: Padding validation.  Decoding fails with a ValueError naming a
\* byte-aligned dummy8 field when the bytes read for it are not all of its
\* declared width and zero, and does not fail at that field when they are.
C7_PadValidation ==
    rec.last.op = "unpack" =>
        \A i \in 1..Len(rec.paramdef.fields) :
            LET field == rec.paramdef.fields[i]
                data == Read(rec.entry_buffer, FieldStart(rec.paramdef.fields, i), field.size)
                zero == Len(data) = field.size /\ \A j \in 1..Len(data) : data[j] = 0
            IN  (IsPadField(field) /\ ReachedField(rec.paramdef.fields, i)) =>
                    /\ ~zero => (rec.last.err = "ValueError" /\ rec.last.at = field.name)
                    /\ zero => rec.last.at # field.name

\* C7 witness: decoding failed at a two-byte pad field whose first byte is
\* zero and whose second is not, after an earlier field was decoded.
C7_Witness ==
    /\ rec.last.op = "unpack"
    /\ rec.last.err = "ValueError"
    /\ \E i \in 2..Len(rec.paramdef.fields) :
          /\ IsPadField(rec.paramdef.fields[i])
          /\ rec.last.at = rec.paramdef.fields[i].name
          /\ Len(rec.entry_buffer) >= FieldStart(rec.paramdef.fields, i) + 2
          /\ rec.entry_buffer[FieldStart(rec.paramdef.fields, i) + 1] = 0
          /\ rec.entry_buffer[FieldStart(rec.paramdef.fields, i) + 2] # 0

\* The value of scalar field i of the record is of its type's Python type
\* and range: an integer from the minimum to the maximum, or for f32 a
\* float that is no infinity and no NaN.
ScalarFits(i) ==
    LET item == rec.entry.fields[i]
        tag == FieldType(ParamDefField(rec.entry.paramdef, item.name))
    IN  IF tag = "f32"
        THEN /\ item.value.kind = "float"
             /\ item.value.v[4] % 128 # 127 \/ item.value.v[3] < 128
        ELSE /\ item.value.kind = "int"
             /\ TypeMinimum(tag) <= item.value.v
             /\ item.value.v <= TypeMaximum(tag)

\* C8: Range validation on encode.  ParamEntry.pack fails with a ParamError
\* naming a byte-aligned scalar field whose value is not of its type or is
\* outside its type's [minimum, maximum] (the first such field: no earlier
\* field fails, and writing the bits pending before the field does not
\* fail, which raises ValueError), and does not fail at a scalar field
\* whose value is inside it, the minimum and the maximum included.
C8_RangeValidation ==
    rec.last.op = "pack" =>
        \A i \in 1..Len(rec.entry.fields) :
            LET names == Keys(rec.entry.fields)
                field == ParamDefField(rec.entry.paramdef, names[i])
            IN  (/\ IsScalarField(field)
                 /\ FieldType(field) # NoType
                 /\ ReachedField(rec.entry.fields, i)
                 /\ ~(rec.last.err = "ValueError" /\ rec.last.at = field.name)) =>
                    /\ ~ScalarFits(i) => (rec.last.err = "ParamError" /\ rec.last.at = field.name)
                    /\ ScalarFits(i) => rec.last.at # field.name

\* C8 witness: packing failed at a signed 16-bit field holding its maximum
\* plus one.
C8_Witness ==
    /\ rec.last.op = "pack"
    /\ rec.last.err = "ParamError"
    /\ \E i \in 1..Len(rec.entry.fields) :
          /\ rec.entry.fields[i].name = rec.last.at
          /\ ParamDefField(rec.entry.paramdef, rec.last.at).internal_type = "s16"
          /\ rec.entry.fields[i].value = IntV(32768)

\* C12: Record key set is immutable under field assignment.  A call of
\* ParamEntry.__setitem__ leaves the keys of the record and their order as
\* they were; for a name that is no field, or a position that is none of
\* the record (past the last field, or before the first counted from the
\* end), it raises KeyError and leaves every value as it was, and otherwise
\* it raises nothing.
C12_KeySetImmutable ==
    [][rec'.last.op = "setitem" =>
         LET n == Len(rec.entry.fields)
             field == rec'.last.field
             missing == IF field.kind = "int"
                        THEN field.v >= n \/ field.v < 0 - n
                        ELSE ~HasKey(rec.entry.fields, field.v)
         IN  /\ Keys(rec'.entry.fields) = Keys(rec.entry.fields)
             /\ missing => (rec'.last.err = "KeyError" /\ rec'.entry.fields = rec.entry.fields)
             /\ ~missing => rec'.last.err = ""]_vars

\* C12 witness: an assignment to a name that is no field of a record of two
\* fields raised KeyError.
C12_Witness ==
    /\ rec.last.op = "setitem"
    /\ rec.last.err = "KeyError"
    /\ rec.last.field = [kind |-> "str", v |-> "zz"]
    /\ Len(rec.entry.fields) = 2

\* The names of the fields of a schema, in schema order, and those of its
\* fields that are no dummy8 fields.
FieldNamesOf(fields) == [i \in 1..Len(fields) |-> fields[i].name]

IsDummy8(field) == field.internal_type = "dummy8"

\* C13: Padding fields are not retained, as claimed: after ParamEntry.unpack
\* has decoded a record, the keys of its mapping are, in schema order, the
\* names of the schema's fields that are no dummy8 fields.
C13_PadsNotRetained ==
    (rec.last.op = "unpack" /\ rec.last.err = "") =>
        Keys(rec.entry.fields) = FieldNamesOf(SelectSeq(rec.paramdef.fields, LAMBDA field : ~IsDummy8(field)))

\* C13, amended: after ParamEntry.unpack has decoded a record, the keys of
\* its mapping are, in schema order, the names of all the schema's fields,
\* the dummy8 fields included; a byte-aligned dummy8 field holds the zero
\* bytes read for it and a bit-width dummy8 field holds an integer.
C13_PadsRetained ==
    (rec.last.op = "unpack" /\ rec.last.err = "") =>
        /\ Keys(rec.entry.fields) = FieldNamesOf(rec.paramdef.fields)
        /\ \A i \in 1..Len(rec.paramdef.fields) :
             IsDummy8(rec.paramdef.fields[i]) =>
                IF rec.paramdef.fields[i].bit_size < 8
                THEN rec.entry.fields[i].value.kind = "int"
                ELSE rec.entry.fields[i].value = BytesV(Zeros(rec.paramdef.fields[i].size))

\* C13 witness: a record of the schema with a bit-width and a byte-aligned
\* dummy8 field was decoded.
C13_Witness ==
    /\ rec.last.op = "unpack"
    /\ rec.last.err = ""
    /\ rec.paramdef = PaddedParamDef
    /\ Len(rec.entry.fields) = 5

\* The record as one that was never decoded or encoded: the same name,
\* values and schema with the cursor of a new BitField.
WithoutHistory(entry) == [entry EXCEPT !.bit_field = NewBitField]

\* C14: Encode is deterministic and atomic per call, as claimed: whatever
\* calls were made on the record before, ParamEntry.pack returns the bytes,
\* or raises the error, that it returns or raises for a record of the same
\* values and schema that has no history.
C14_PackIgnoresHistory ==
    rec.last.op = "pack" =>
        /\ rec.last.err = EntryPack(WithoutHistory(rec.entry)).err
        /\ rec.last.packed_entry = EntryPack(WithoutHistory(rec.entry)).packed_entry

\* C15: Bit Cursor flush invariant, as claimed for the end of a record:
\* when ParamEntry.unpack or ParamEntry.pack has returned, the pending
\* buffer of the record's BitField is empty.
C15_CursorEmptyAtEndOfRecord ==
    (rec.last.op \in {"unpack", "pack"} /\ rec.last.err = "") =>
        rec.entry.bit_field.field = <<>>

(***************************************************************************)
(* Properties of the table codec (checked under Spec).                     *)
(***************************************************************************)
\* The entry count a serialized table states in its header.
PointerCount(buffer) == Unsigned(buffer, 10, 2)

\* The name offset a serialized table states in its header.
NameDataOffset(buffer) == Unsigned(buffer, 0, 4)

\* The i-th entry pointer of a serialized table.
PointerAt(buffer, i) ==
    EntryPointerUnpack(buffer, HEADER_SIZE + ENTRY_POINTER_SIZE * (i - 1))

Ids(entries) == {entries[i].id : i \in 1..Len(entries)}

\* Two tables hold the same ids and, per id, records of the same name and
\* the same field values.
SameRecords(t1, t2) ==
    /\ Ids(t1.entries) = Ids(t2.entries)
    /\ \A id \in Ids(t1.entries) :
          /\ EntriesGet(t1.entries, id).name = EntriesGet(t2.entries, id).name
          /\ EntriesGet(t1.entries, id).fields = EntriesGet(t2.entries, id).fields

\* C1: Table round-trip, as claimed: the bytes ParamTable.pack returns for
\* a parsed table parse to a table of the same ids, names and field values.
C1_TableRoundTrip ==
    tab.last.op = "reparse" =>
        (tab.last.err = "" /\ SameRecords(tab.table, tab.copy))

\* C5, as claimed: with two entry pointers or more, the bytes read for every
\* entry number the second pointer's data offset minus the first's,
\* whatever name offset the header states.
C5_BytesReadArePointerDifference ==
    (tab.last.op = "unpack" /\ PointerCount(tab.param_buffer) >= 2) =>
        \A k \in 1..Len(tab.last.reads) :
            tab.last.reads[k].length =
                PointerAt(tab.param_buffer, 2).data_offset
                    - PointerAt(tab.param_buffer, 1).data_offset

\* C6, as claimed: with one entry pointer the entry size is 220 for
\* LEVELSYNC_PARAM_ST and else the header's name offset minus the data
\* offset stored in the pointer.
C6_SingleStrideFromPointer ==
    (tab.last.op = "unpack" /\ PointerCount(tab.param_buffer) = 1) =>
        tab.last.entry_size =
            IF Slice(tab.param_buffer, 12, 12 + Len(LEVELSYNC_PARAM_ST) + 1)
                    = Append(LEVELSYNC_PARAM_ST, 0)
            THEN LEVELSYNC_ENTRY_SIZE
            ELSE NameDataOffset(tab.param_buffer)
                    - PointerAt(tab.param_buffer, 1).data_offset

\* C6, amended: with one entry pointer the entry size is 220 for
\* LEVELSYNC_PARAM_ST whatever name offset the header states, and else the
\* header's name offset minus the offset at which the pointer array ends
\* (header size + one pointer size), whatever data offset the pointer
\* stores.
C6_SingleStrideFromPointerArrayEnd ==
    (tab.last.op = "unpack" /\ PointerCount(tab.param_buffer) = 1) =>
        tab.last.entry_size =
            IF Slice(tab.param_buffer, 12, 12 + Len(LEVELSYNC_PARAM_ST) + 1)
                    = Append(LEVELSYNC_PARAM_ST, 0)
            THEN LEVELSYNC_ENTRY_SIZE
            ELSE NameDataOffset(tab.param_buffer) - (HEADER_SIZE + ENTRY_POINTER_SIZE)

\* C6 witness: a table of another name was parsed from one entry pointer
\* whose data offset lies past the end of the pointer array.
C6_Witness ==
    /\ tab.last.op = "unpack"
    /\ tab.last.err = ""
    /\ PointerCount(tab.param_buffer) = 1
    /\ tab.table.param_name # LEVELSYNC_PARAM_ST
    /\ PointerAt(tab.param_buffer, 1).data_offset > HEADER_SIZE + ENTRY_POINTER_SIZE
    /\ Len(tab.last.reads) = 1

\* Every run of bit-width fields of a schema fills whole bytes.
RECURSIVE WholeByteRuns(_, _, _)
WholeByteRuns(fields, i, pending) ==
    IF i > Len(fields) THEN pending % 8 = 0
    ELSE IF fields[i].bit_size < 8
    THEN WholeByteRuns(fields, i + 1, pending + fields[i].bit_size)
    ELSE pending % 8 = 0 /\ WholeByteRuns(fields, i + 1, 0)

\* The item of the first loop of ParamTable.pack for an id.
PackedOf(packed, id) == packed[CHOOSE k \in 1..Len(packed) : packed[k].id = id]

\* C9: Sorted serialization.  ParamTable.pack(sort=True) emits one pointer
\* per id of the table, in ascending id order whatever the order of the
\* table's entries; the data offset of each pointer addresses, in the
\* output, the bytes entry.pack() returned for the record of that id, and
\* its name offset the null-terminated name of that record.  The records of
\* the table keep their names and field values, and for a record that holds
\* the fields of its schema, where the schema's bit runs fill whole bytes,
\* the bytes at the data offset decode to the field values of the record of
\* that id.
C9_SortedSerialization ==
    (tab.last.op = "pack" /\ tab.last.sort /\ tab.last.err = "") =>
        LET n == PointerCount(tab.out)
        IN  /\ n = Cardinality(Ids(tab.table.entries))
            /\ \A i \in 1..n : PointerAt(tab.out, i).id \in Ids(tab.table.entries)
            /\ \A i \in 1..n : \A j \in 1..n :
                  i < j => PointerAt(tab.out, i).id < PointerAt(tab.out, j).id
            /\ \A i \in 1..n :
                  LET pointer == PointerAt(tab.out, i)
                      entry == EntriesGet(tab.table.entries, pointer.id)
                      packed_entry == PackedOf(tab.last.packed, pointer.id).packed_entry
                      data == Slice(tab.out, pointer.data_offset,
                                    pointer.data_offset + Len(packed_entry))
                  IN  /\ data = packed_entry
                      /\ ReadChars(tab.out, pointer.name_offset)
                            = [name |-> entry.name, err |-> ""]
                      /\ ( /\ WholeByteRuns(entry.paramdef.fields, 1, 0)
                           /\ Keys(entry.fields) = FieldNamesOf(entry.paramdef.fields) ) =>
                            /\ NewEntryFromBytes(data, entry.paramdef, entry.name).err = ""
                            /\ NewEntryFromBytes(data, entry.paramdef, entry.name).entry.fields
                                  = entry.fields

\* C9 witness: a table whose entries are held in the order 5, 1, 3 was
\* packed sorted, and the pointers of the output name 1, 3, 5.
C9_Witness ==
    /\ tab.last.op = "pack"
    /\ tab.last.sort
    /\ tab.last.err = ""
    /\ [i \in 1..Len(tab.table.entries) |-> tab.table.entries[i].id] = <<5, 1, 3>>
    /\ PointerCount(tab.out) = 3
    /\ [i \in 1..3 |-> PointerAt(tab.out, i).id] = <<1, 3, 5>>
    /\ WholeByteRuns(tab.paramdef.fields, 1, 0)

\* C10: Serialized layout.  The output of ParamTable.pack for a table of n
\* entries is the header, n pointers from offset HEADER_SIZE on, the data
\* blob from HEADER_SIZE + n * ENTRY_POINTER_SIZE on, and the name blob
\* right after the data blob up to the end; the header states n as its
\* entry count, the start of the name blob as its name offset, and the
\* lesser of the start of the data blob and 2^16 - 1 as its data offset.
\* The offsets computed for tables of thousands of entries obey the same
\* rule.
C10_SerializedLayout ==
    /\ (tab.last.op = "pack" /\ tab.last.err = "") =>
          LET n == Cardinality(Ids(tab.table.entries))
              data_start == HEADER_SIZE + n * ENTRY_POINTER_SIZE
              name_start == data_start + Len(tab.last.packed_data)
          IN  /\ Len(tab.last.packed) = n
              /\ Len(tab.out) = name_start + Len(tab.last.packed_names)
              /\ \A i \in 1..n : PointerAt(tab.out, i).id = tab.last.packed[i].id
              /\ Slice(tab.out, data_start, name_start) = tab.last.packed_data
              /\ Slice(tab.out, name_start, Len(tab.out)) = tab.last.packed_names
              /\ PointerCount(tab.out) = n
              /\ NameDataOffset(tab.out) = name_start
              /\ Unsigned(tab.out, 4, 2) = Min2(data_start, MAX_USHORT)
    /\ tab.last.op = "offsets" =>
          LET data_start == HEADER_SIZE + tab.last.entry_count * ENTRY_POINTER_SIZE
          IN  /\ tab.last.offsets.entry_pointer_table_offset = HEADER_SIZE
              /\ tab.last.offsets.entry_data_offset = data_start
              /\ tab.last.offsets.name_data_offset = data_start + tab.last.data_length
              /\ tab.last.offsets.entry_data_offset_hint
                    = IF data_start > MAX_USHORT THEN MAX_USHORT ELSE data_start

\* C10 witness: a table of three named entries was packed.
C10_Witness ==
    /\ tab.last.op = "pack"
    /\ tab.last.err = ""
    /\ Len(tab.last.packed) = 3
    /\ Len(tab.last.packed_data) > 0
    /\ Len(tab.last.packed_names) > 3
    /\ Len(tab.out) > HEADER_SIZE + 3 * ENTRY_POINTER_SIZE + Len(tab.last.packed_data)

\* The magic0, magic1, magic2 and unknown fields of a serialized header.
HeaderMetadata(buffer) ==
    <<Unsigned(buffer, 6, 2), Unsigned(buffer, 8, 2), Unsigned(buffer, 45, 2),
      Unsigned(buffer, 47, 1)>>

\* C11: Opaque metadata preservation.  A parsed table holds the magic0,
\* magic1, magic2 and unknown values of the header it was parsed from, no
\* insertion, removal or field edit (nor a pack, failed or not) changes
\* them, and the header ParamTable.pack emits carries them.  (A table
\* constructed from a dict was parsed from no header.)
C11_MetadataPreserved ==
    (tab.built /\ tab.param_buffer # <<>>) =>
        /\ tab.table.magic \o <<tab.table.unknown>> = HeaderMetadata(tab.param_buffer)
        /\ (tab.last.op = "pack" /\ tab.last.err = "") =>
              HeaderMetadata(tab.out) = HeaderMetadata(tab.param_buffer)

\* C11 witness: a record was inserted at id 2 into the table of ids 3 and 1
\* parsed from a header of magic 3, 0, 65535 and unknown 9, and the table
\* was packed.
C11_Witness ==
    /\ tab.last.op = "pack"
    /\ tab.last.err = ""
    /\ tab.edits >= 1
    /\ Ids(tab.table.entries) = {1, 2, 3}
    /\ HeaderMetadata(tab.param_buffer) = <<3, 0, MAX_USHORT, 9>>
    /\ Len(tab.out) >= HEADER_SIZE

\* C16: Table schema invariant, as claimed: every record a table holds is
\* bound to the table's schema, and the keys of its mapping are the names
\* of that schema's fields, in schema order.
C16_TableSchemaInvariant ==
    tab.built =>
        \A i \in 1..Len(tab.table.entries) :
            /\ tab.table.entries[i].entry.paramdef = tab.paramdef
            /\ Keys(tab.table.entries[i].entry.fields) = FieldNamesOf(tab.paramdef.fields)

=============================================================================
